---- MODULE Spec2Model ----
(***************************************************************************)
(* Mesh state store and discovery update reducer of ztunnel.               *)
(*                                                                         *)
(*   src/src/state/workload.rs   WorkloadStore (address and UID indices)   *)
(*   src/src/xds.rs              ProxyStateUpdater (the reducer)           *)
(*   state/service.rs            ServiceStore (by_vip, by_host, staging);  *)
(*                               its source is not part of src/, it is     *)
(*                               modelled from the specification and from  *)
(*                               its callers in xds.rs and the tests.      *)
(*                                                                         *)
(* Strings that the code splits on '/' are sequences of tokens, a token    *)
(* being either "/" or a maximal slash-free piece of the string.           *)
(* A Rust HashMap is a function; a Vec is a sequence; Option is a record   *)
(* with the field is_some.                                                 *)
(***************************************************************************)
EXTENDS Integers, Sequences, FiniteSets, TLC

VARIABLES
    state,      \* Arc<RwLock<ProxyState>>: the WorkloadStore and the ServiceStore
    pending,    \* ProxyStateUpdater::insert_workload between its two write locks
    xds_vips,   \* uid -> the VIPs listed by the XdsWorkload last stored for the uid
    observed,   \* result of a reader's find_workload in the current store state
    last,       \* the final update of a run, with the store it was applied to
    ops,        \* number of updates handled so far
    policies,               \* WorkloadStore.policies: key -> Authorization
    policies_by_namespace,  \* WorkloadStore.policies_by_namespace: namespace -> keys
    updaters,   \* two clones of ProxyStateUpdater, each with its update and position
    batch,      \* Handler::handle: the updates of a batch, the position, the rejects
    served,     \* Inbound::serve_connect: a request, its connection and the outcome
    listener,   \* Inbound::run: the drain signal, the accept loop and its connection tasks
    decision    \* Inbound::serve_connect read by read, beside the reducer

vars == <<state, pending, xds_vips, observed, last, ops, policies, policies_by_namespace,
          updaters, batch, served, listener, decision>>

\* The variables the workload and service updates of the reducer leave alone.
policy_vars == <<policies, policies_by_namespace>>
\* The variables of the two concurrent clones of the updater.
conc_vars == <<updaters>>
\* The variable of the batch handler.
batch_vars == <<batch>>
\* The variable of the inbound listener.
inbound_vars == <<served>>
listener_vars == <<listener>>
decision_vars == <<decision>>

\* Number of updates the reducer handles in one run of the model: of Spec, where
\* every update is applied as a whole, and of SpecRace, where a reader runs
\* between the write locks of the updater.
MaxOps == 3
MaxRaceOps == 2

---------------------------------------------------------------------------
(* Option, HashMap and string helpers                                      *)

None == [is_some |-> FALSE]
Some(x) == [is_some |-> TRUE, value |-> x]

EmptyMap == [k \in {} |-> k]
MapInsert(m, key, val) == [k \in DOMAIN m \cup {key} |-> IF k = key THEN val ELSE m[k]]
MapRemove(m, key) == [k \in DOMAIN m \ {key} |-> m[k]]
MapRemoveAll(m, keys) == [k \in DOMAIN m \ keys |-> m[k]]
MapGet(m, key) == IF key \in DOMAIN m THEN Some(m[key]) ELSE None

Range(s) == {s[i] : i \in DOMAIN s}

\* str::split_once('/'): the text before and after the first '/'.
split_once(s) ==
    IF \E i \in DOMAIN s : s[i] = "/"
    THEN LET i == CHOOSE j \in DOMAIN s : s[j] = "/" /\ \A k \in 1..(j - 1) : s[k] # "/"
         IN  Some([left |-> SubSeq(s, 1, i - 1), right |-> SubSeq(s, i + 1, Len(s))])
    ELSE None

---------------------------------------------------------------------------
(* Addresses                                                               *)

IP1 == <<127, 0, 0, 1>>
IP2 == <<127, 0, 0, 2>>
VIP1 == <<127, 0, 1, 1>>
VIP2 == <<127, 0, 1, 2>>

\* The text of an address as it appears as a key of XdsWorkload.virtual_ips.
IpText == [t \in {"127.0.1.1", "127.0.1.2"} |-> IF t = "127.0.1.1" THEN VIP1 ELSE VIP2]

\* str::parse::<IpAddr>(): only a single slash-free piece that spells an address parses.
parse_ip(s) ==
    IF Len(s) = 1 /\ s[1] \in DOMAIN IpText
    THEN [ok |-> TRUE, value |-> [kind |-> "V4", octets |-> IpText[s[1]]]]
    ELSE [ok |-> FALSE, error |-> "AddressParse"]

\* byte_to_ip that takes the first four bytes of a longer slice for an IPv4
\* address instead of failing.
byte_to_ip_truncating(b) ==
    CASE Len(b) = 16 -> [ok |-> TRUE, value |-> [kind |-> "V6", octets |-> b]]
      [] Len(b) >= 4 -> [ok |-> TRUE, value |-> [kind |-> "V4", octets |-> SubSeq(b, 1, 4)]]
      [] OTHER -> [ok |-> FALSE, error |-> [kind |-> "ByteAddressParse", n |-> Len(b)]]

byte_to_ip(b) ==
    CASE Len(b) = 4 -> [ok |-> TRUE, value |-> [kind |-> "V4", octets |-> b]]
      [] Len(b) = 16 -> [ok |-> TRUE, value |-> [kind |-> "V6", octets |-> b]]
      [] OTHER -> [ok |-> FALSE, error |-> [kind |-> "ByteAddressParse", n |-> Len(b)]]

network_addr(network, vip) == [network |-> network, address |-> vip]

\* impl Display for NamespacedHostname: "{namespace}/{hostname}".
namespaced_hostname_display(nh) == nh.namespace \o <<"/">> \o nh.hostname

---------------------------------------------------------------------------
(* Workload conversion: impl TryFrom<&XdsWorkload> for Workload            *)

\* impl TryFrom<Option<WorkloadStatus>> for HealthStatus, applied to
\* WorkloadStatus::from_i32(resource.status): HEALTHY = 0, UNHEALTHY = 1.
health_status_try_from(status) ==
    CASE status = 0 -> [ok |-> TRUE, value |-> "Healthy"]
      [] status = 1 -> [ok |-> TRUE, value |-> "Unhealthy"]
      [] OTHER -> [ok |-> FALSE, error |-> "EnumParse"]

\* The fields of Workload that the store and the reducer read. The conversion
\* fails when an address has a length other than 4 or 16 or the status is unknown.
workload_try_from(resource) ==
    LET addresses == [i \in DOMAIN resource.addresses |-> byte_to_ip(resource.addresses[i])]
        status == health_status_try_from(resource.status)
    IN  IF \E i \in DOMAIN addresses : ~addresses[i].ok
        THEN [ok |-> FALSE, error |-> "ByteAddressParse"]
        ELSE IF ~status.ok
        THEN [ok |-> FALSE, error |-> "EnumParse"]
        ELSE [ok |-> TRUE,
              value |-> [uid |-> resource.uid,
                         workload_ips |-> [i \in DOMAIN addresses |-> addresses[i].value],
                         network |-> resource.network,
                         status |-> status.value]]

---------------------------------------------------------------------------
(* WorkloadStore: workloads (address index) and workloads_by_uid           *)

workload_addrs(w) == {network_addr(w.network, w.workload_ips[i]) : i \in DOMAIN w.workload_ips}

\* remove_workload that leaves the addresses of the removed workload in the
\* address index.
remove_workload_keeps_addresses(ws, uid) ==
    IF uid \notin DOMAIN ws.workloads_by_uid
    THEN [store |-> ws, prev |-> None]
    ELSE [store |-> [ws EXCEPT !.workloads_by_uid = MapRemove(@, uid)],
          prev |-> Some(ws.workloads_by_uid[uid])]

\* remove_workload that removes only the first address of the removed workload.
remove_workload_first_ip(ws, uid) ==
    IF uid \notin DOMAIN ws.workloads_by_uid
    THEN [store |-> ws, prev |-> None]
    ELSE LET prev == ws.workloads_by_uid[uid]
         IN  [store |-> [workloads |->
                             MapRemoveAll(ws.workloads,
                                          {network_addr(prev.network, prev.workload_ips[i]) :
                                              i \in DOMAIN prev.workload_ips \cap {1}}),
                         workloads_by_uid |-> MapRemove(ws.workloads_by_uid, uid)],
              prev |-> Some(prev)]

\* WorkloadStore::remove_workload: the store afterwards and the removed record.
remove_workload(ws, uid) ==
    IF uid \notin DOMAIN ws.workloads_by_uid
    THEN [store |-> ws, prev |-> None]
    ELSE LET prev == ws.workloads_by_uid[uid]
         IN  [store |-> [workloads |-> MapRemoveAll(ws.workloads, workload_addrs(prev)),
                         workloads_by_uid |-> MapRemove(ws.workloads_by_uid, uid)],
              prev |-> Some(prev)]

\* WorkloadStore::insert_workload.
insert_workload(ws, w) ==
    LET cleaned == remove_workload(ws, w.uid).store
    IN  [workloads |-> [a \in DOMAIN cleaned.workloads \cup workload_addrs(w) |->
                            IF a \in workload_addrs(w) THEN w ELSE cleaned.workloads[a]],
         workloads_by_uid |-> MapInsert(cleaned.workloads_by_uid, w.uid, w)]

\* find_workload that matches the IP on any network.
find_workload_any_network(ws, addr) ==
    LET keys == {k \in DOMAIN ws.workloads : k.address = addr.address}
    IN  IF keys = {} THEN None ELSE Some(ws.workloads[CHOOSE k \in keys : TRUE])

\* WorkloadStore::find_workload.
find_workload(ws, addr) == MapGet(ws.workloads, addr)

---------------------------------------------------------------------------
(* WorkloadStore: policies and policies_by_namespace                       *)
(* An Authorization is [name, namespace, scope]; ps is the pair of maps    *)
(* [policies, policies_by_namespace].                                      *)

\* Authorization::to_key: "{namespace}/{name}".
to_key(rbac) == rbac.namespace \o <<"/">> \o rbac.name

\* HashMap::entry(key).or_default().insert(name).
entry_insert(by_namespace, key, name) ==
    MapInsert(by_namespace, key,
              (IF key \in DOMAIN by_namespace THEN by_namespace[key] ELSE {}) \cup {name})

\* WorkloadStore::insert_authorization.
insert_authorization(ps, rbac) ==
    LET key == to_key(rbac)
    IN  [policies_by_namespace |->
             CASE rbac.scope = "Global" -> entry_insert(ps.policies_by_namespace, <<>>, key)
               [] rbac.scope = "Namespace" ->
                      entry_insert(ps.policies_by_namespace, rbac.namespace, key)
               [] OTHER -> ps.policies_by_namespace,
         policies |-> MapInsert(ps.policies, key, rbac)]

\* WorkloadStore::remove_rbac.
remove_rbac(ps, name) ==
    IF name \notin DOMAIN ps.policies THEN ps
    ELSE LET rbac == ps.policies[name]
             key == CASE rbac.scope = "Global" -> Some(<<>>)
                      [] rbac.scope = "Namespace" -> Some(rbac.namespace)
                      [] OTHER -> None
             by_namespace == ps.policies_by_namespace
         IN  [policies |-> MapRemove(ps.policies, name),
              policies_by_namespace |->
                  IF key.is_some /\ key.value \in DOMAIN by_namespace
                  THEN LET pl == by_namespace[key.value] \ {name}
                       IN  IF pl = {} THEN MapRemove(by_namespace, key.value)
                           ELSE MapInsert(by_namespace, key.value, pl)
                  ELSE by_namespace]

---------------------------------------------------------------------------
(* ServiceStore: staged_vips, by_vip and by_host                           *)
(* A Service is [namespace, hostname, vips, endpoints]; endpoints is keyed *)
(* by the endpoint's workload address (xds.rs:165-166). An Endpoint is     *)
(* [vip, address, port].                                                   *)

MapMerge(base, over) ==
    [k \in DOMAIN base \cup DOMAIN over |-> IF k \in DOMAIN over THEN over[k] ELSE base[k]]

namespaced_hostname(service) == [namespace |-> service.namespace, hostname |-> service.hostname]

\* ServiceStore::get_by_vip and ServiceStore::get_by_namespaced_host.
get_by_vip(ss, vip) == MapGet(ss.by_vip, vip)
get_by_namespaced_host(ss, nh) == MapGet(ss.by_host, nh)

\* ServiceStore::num_vips, num_services and num_staged_vips.
num_vips(ss) == Cardinality(DOMAIN ss.by_vip)
num_services(ss) == Cardinality(DOMAIN ss.by_host)
num_staged_vips(ss) == Cardinality(DOMAIN ss.staged_vips)

\* ServiceStore::remove: the record leaves by_host and each of its VIPs leaves by_vip.
services_remove(ss, nh) ==
    IF nh \notin DOMAIN ss.by_host
    THEN [store |-> ss, prev |-> None]
    ELSE LET prev == ss.by_host[nh]
         IN  [store |-> [ss EXCEPT !.by_host = MapRemove(@, nh),
                                   !.by_vip = MapRemoveAll(@, Range(prev.vips))],
              prev |-> Some(prev)]

\* The endpoints staged for the service's VIPs, taken VIP by VIP in the order of vips.
RECURSIVE take_staged(_, _, _)
take_staged(endpoints, staged_vips, vips) ==
    IF vips = <<>> THEN endpoints
    ELSE take_staged(IF Head(vips) \in DOMAIN staged_vips
                     THEN MapMerge(endpoints, staged_vips[Head(vips)])
                     ELSE endpoints,
                     staged_vips, Tail(vips))

\* ServiceStore::insert: staged endpoints of the service's VIPs move into the
\* service and leave the staging area, the previous record of the same
\* namespace/hostname is removed, and the new record is stored under its
\* namespace/hostname and under each of its VIPs.
services_insert(ss, service) ==
    LET full == [service EXCEPT !.endpoints = take_staged(@, ss.staged_vips, service.vips)]
        unstaged == [ss EXCEPT !.staged_vips = MapRemoveAll(@, Range(service.vips))]
        cleaned == services_remove(unstaged, namespaced_hostname(service)).store
    IN  [cleaned EXCEPT
            !.by_vip = [v \in DOMAIN @ \cup Range(full.vips) |->
                            IF v \in Range(full.vips) THEN full ELSE @[v]],
            !.by_host = MapInsert(@, namespaced_hostname(full), full)]

\* ServiceStore::insert_endpoint: into the service that owns the endpoint's
\* VIP, or into the staging area when no service owns it yet.
insert_endpoint(ss, ep) ==
    IF ep.vip \in DOMAIN ss.by_vip
    THEN services_insert(ss, [ss.by_vip[ep.vip] EXCEPT !.endpoints = MapInsert(@, ep.address, ep)])
    ELSE [ss EXCEPT !.staged_vips =
              MapInsert(@, ep.vip,
                        MapInsert(IF ep.vip \in DOMAIN @ THEN @[ep.vip] ELSE EmptyMap,
                                  ep.address, ep))]

\* ServiceStore::remove_endpoint: the address leaves the endpoint map of every
\* stored service and every staging entry; a staging entry left empty is dropped.
remove_endpoint(ss, addr) ==
    LET strip(svc) == [svc EXCEPT !.endpoints = MapRemove(@, addr)]
        staged == [v \in DOMAIN ss.staged_vips |-> MapRemove(ss.staged_vips[v], addr)]
    IN  [staged_vips |-> [v \in {x \in DOMAIN staged : DOMAIN staged[x] # {}} |-> staged[v]],
         by_vip |-> [v \in DOMAIN ss.by_vip |-> strip(ss.by_vip[v])],
         by_host |-> [h \in DOMAIN ss.by_host |-> strip(ss.by_host[h])]]

---------------------------------------------------------------------------
(* ProxyStateUpdater: the discovery update reducer (xds.rs)                *)

\* impl From<&PortList> for HashMap<u16, u16>, for the one port list of the model.
port_map == [service_port \in {80} |-> 8080]

\* service_endpoints for one VIP key that puts every VIP on the workload's own
\* network, whatever network the key names.
endpoints_of_key_own_network(workload, key) ==
    LET parts == split_once(key)
        vip == IF parts.is_some THEN parts.value.right ELSE key
        parsed == parse_ip(vip)
    IN  IF ~parsed.ok
        THEN [ok |-> FALSE, error |-> parsed.error]
        ELSE [ok |-> TRUE,
              value |-> [i \in DOMAIN workload.workload_ips |->
                            [vip |-> network_addr(workload.network, parsed.value),
                             address |-> network_addr(workload.network, workload.workload_ips[i]),
                             port |-> port_map]]]

\* service_endpoints for one VIP key: one endpoint per workload address.
endpoints_of_key(workload, key) ==
    LET parts == split_once(key)
        vip == IF parts.is_some THEN parts.value.right ELSE key
        svc_network == IF parts.is_some THEN parts.value.left ELSE workload.network
        parsed == parse_ip(vip)
    IN  IF ~parsed.ok
        THEN [ok |-> FALSE, error |-> parsed.error]
        ELSE [ok |-> TRUE,
              value |-> [i \in DOMAIN workload.workload_ips |->
                            [vip |-> network_addr(svc_network, parsed.value),
                             address |-> network_addr(workload.network, workload.workload_ips[i]),
                             port |-> port_map]]]

\* service_endpoints: virtual_ips is given in the iteration order of the HashMap.
RECURSIVE service_endpoints(_, _)
service_endpoints(workload, virtual_ips) ==
    IF virtual_ips = <<>> THEN [ok |-> TRUE, value |-> <<>>]
    ELSE LET first == endpoints_of_key(workload, Head(virtual_ips))
             rest == service_endpoints(workload, Tail(virtual_ips))
         IN  IF ~first.ok THEN first
             ELSE IF ~rest.ok THEN rest
             ELSE [ok |-> TRUE, value |-> first.value \o rest.value]

\* ProxyStateUpdater::remove, under one write lock.
RECURSIVE remove_endpoints(_, _)
remove_endpoints(ss, workload_ips_addrs) ==
    IF workload_ips_addrs = <<>> THEN ss
    ELSE remove_endpoints(remove_endpoint(ss, Head(workload_ips_addrs)), Tail(workload_ips_addrs))

\* remove without the early return of xds.rs:115: after the workload is removed
\* the key is also tried as the key of a service.
remove_without_return(st, xds_name) ==
    LET removed == remove_workload(st.workloads, xds_name)
        parts == split_once(xds_name)
        unlisted == IF removed.prev.is_some
                    THEN LET prev == removed.prev.value
                         IN  [workloads |-> removed.store,
                              services |-> remove_endpoints(st.services,
                                               [i \in DOMAIN prev.workload_ips |->
                                                    network_addr(prev.network, prev.workload_ips[i])])]
                    ELSE st
    IN  IF ~parts.is_some
        THEN unlisted
        ELSE IF split_once(parts.value.right).is_some
        THEN unlisted
        ELSE [unlisted EXCEPT !.services =
                  services_remove(@, [namespace |-> parts.value.left,
                                      hostname |-> parts.value.right]).store]

\* remove that looks the service up by its hostname alone, whatever the
\* namespace of the key.
remove_by_hostname(st, xds_name) ==
    LET removed == remove_workload(st.workloads, xds_name)
        parts == split_once(xds_name)
    IN  IF removed.prev.is_some
        THEN LET prev == removed.prev.value
             IN  [workloads |-> removed.store,
                  services |-> remove_endpoints(st.services,
                                   [i \in DOMAIN prev.workload_ips |->
                                        network_addr(prev.network, prev.workload_ips[i])])]
        ELSE IF ~parts.is_some
        THEN st
        ELSE IF split_once(parts.value.right).is_some
        THEN st
        ELSE LET named == {nh \in DOMAIN st.services.by_host : nh.hostname = parts.value.right}
             IN  IF named = {} THEN st
                 ELSE [st EXCEPT !.services = services_remove(@, CHOOSE nh \in named : TRUE).store]

remove(st, xds_name) ==
    LET removed == remove_workload(st.workloads, xds_name)
        parts == split_once(xds_name)
    IN  IF removed.prev.is_some
        THEN LET prev == removed.prev.value
             IN  [workloads |-> removed.store,
                  services |-> remove_endpoints(st.services,
                                   [i \in DOMAIN prev.workload_ips |->
                                        network_addr(prev.network, prev.workload_ips[i])])]
        ELSE IF ~parts.is_some
        THEN st
        ELSE IF split_once(parts.value.right).is_some
        THEN st
        ELSE [st EXCEPT !.services =
                  services_remove(@, [namespace |-> parts.value.left,
                                      hostname |-> parts.value.right]).store]

\* The second write lock of ProxyStateUpdater::insert_workload (xds.rs:93-97):
\* the workload is stored and its endpoints are popped off the vector one by one.
RECURSIVE insert_endpoints(_, _)
insert_endpoints(ss, endpoints) ==
    IF endpoints = <<>> THEN ss
    ELSE insert_endpoints(insert_endpoint(ss, endpoints[Len(endpoints)]),
                          SubSeq(endpoints, 1, Len(endpoints) - 1))

store_workload(st, workload, endpoints) ==
    [workloads |-> insert_workload(st.workloads, workload),
     services |-> insert_endpoints(st.services, endpoints)]

\* The endpoints ProxyStateUpdater::insert_workload derives (xds.rs:83-87).
derived_endpoints(workload, virtual_ips) ==
    IF workload.status = "Healthy"
    THEN service_endpoints(workload, virtual_ips)
    ELSE [ok |-> TRUE, value |-> <<>>]

\* Service::try_from(&XdsService): the VIPs are the addresses in the given order.
service_try_from(service) ==
    [namespace |-> service.namespace,
     hostname |-> service.hostname,
     vips |-> [i \in DOMAIN service.addresses |->
                  network_addr(service.addresses[i].network,
                               byte_to_ip(service.addresses[i].address).value)],
     endpoints |-> EmptyMap]

\* The loop of ProxyStateUpdater::insert_service (xds.rs:163-169): every endpoint
\* of the service stored under each VIP of the new service is copied into it.
RECURSIVE carry_over(_, _, _)
carry_over(endpoints, ss, vips) ==
    IF vips = <<>> THEN endpoints
    ELSE LET prev == get_by_vip(ss, Head(vips))
         IN  carry_over(IF prev.is_some THEN MapMerge(endpoints, prev.value.endpoints)
                        ELSE endpoints,
                        ss, Tail(vips))

\* ProxyStateUpdater::insert_service, under one write lock.
insert_service(st, xds_service) ==
    LET converted == service_try_from(xds_service)
        service == [converted EXCEPT !.endpoints = carry_over(@, st.services, converted.vips)]
    IN  [st EXCEPT !.services = services_insert(@, service)]

---------------------------------------------------------------------------
(* The updates and the reads the model draws                               *)

\* Workload UIDs: one with several '/', and one of the form namespace/hostname
\* that is also the key of the service svc1 of namespace ns.
UID1 == <<"cluster1", "/", "/", "pod1">>
UID2 == <<"ns", "/", "svc1">>
UIDs == {UID1, UID2}

OwnNetwork == <<>>

KEY1 == <<"127.0.1.1">>
KEY2 == <<"127.0.1.2">>

\* Well-formed workloads, and malformed ones: an unknown status, an address of
\* three bytes, a VIP key that is no address.
XdsWorkloads ==
    [uid : UIDs, addresses : {<<IP1>>, <<IP2>>, <<IP1, IP2>>}, network : {OwnNetwork},
     status : {0, 1}, virtual_ips : {<<>>, <<KEY1>>, <<KEY1, KEY2>>, <<KEY2, KEY1>>}]
    \cup [uid : UIDs, addresses : {<<IP1>>}, network : {OwnNetwork},
          status : {0, 1}, virtual_ips : {<<<<"not-an-ip">>>>}]
    \cup [uid : {UID1}, addresses : {<<<<127, 0, 0>>>>}, network : {OwnNetwork},
          status : {0}, virtual_ips : {<<>>}]
    \cup [uid : {UID1}, addresses : {<<IP1>>}, network : {OwnNetwork},
          status : {2}, virtual_ips : {<<>>}]

XdsAddr(ip) == [network |-> OwnNetwork, address |-> ip]
XdsServices ==
    [namespace : {<<"ns">>}, hostname : {<<"svc1">>, <<"svc2">>},
     addresses : {<<XdsAddr(VIP1)>>, <<XdsAddr(VIP2)>>, <<XdsAddr(VIP1), XdsAddr(VIP2)>>}]

RemoveKeys ==
    UIDs \cup {<<"ns", "/", "svc2">>, <<"/", "invalid">>, <<"/", "svc2">>, <<"invalid">>,
               <<"cluster1", "/", "/", "pod9">>}

ReadAddrs == {network_addr(OwnNetwork, [kind |-> "V4", octets |-> IP1]),
              network_addr(OwnNetwork, [kind |-> "V4", octets |-> IP2])}

\* The VIP addresses that the VIP keys of an XdsWorkload name.
listed_vips(workload, virtual_ips) ==
    {endpoints_of_key(workload, k).value[1].vip :
        k \in {x \in Range(virtual_ips) :
                  endpoints_of_key(workload, x).ok /\ workload.workload_ips # <<>>}}

---------------------------------------------------------------------------
(* ProxyStateUpdater::insert_workload as a whole                           *)

\* What a removal by key leaves of the record of the stored XdsWorkloads.
forget(st, vips_of, key) ==
    IF key \in DOMAIN st.workloads.workloads_by_uid THEN MapRemove(vips_of, key) ELSE vips_of

\* The handler from its first line to its return: the conversion error leaves
\* the store alone, the error of service_endpoints comes after self.remove.
updater_insert_workload(st, w) ==
    LET converted == workload_try_from(w)
        removed == remove(st, w.uid)
        endpoints == derived_endpoints(converted.value, w.virtual_ips)
    IN  IF ~converted.ok THEN [state |-> st, stored |-> FALSE, removed |-> FALSE]
        ELSE IF ~endpoints.ok THEN [state |-> removed, stored |-> FALSE, removed |-> TRUE]
        ELSE [state |-> store_workload(removed, converted.value, endpoints.value),
              stored |-> TRUE, removed |-> TRUE]

---------------------------------------------------------------------------
(* The state machine                                                       *)

Init ==
    /\ state = [workloads |-> [workloads |-> EmptyMap, workloads_by_uid |-> EmptyMap],
                services |-> [staged_vips |-> EmptyMap, by_vip |-> EmptyMap, by_host |-> EmptyMap]]
    /\ pending = None
    /\ xds_vips = EmptyMap
    /\ observed = None
    /\ last = [op |-> "none"]
    /\ ops = 0
    /\ policies = EmptyMap
    /\ policies_by_namespace = EmptyMap
    /\ updaters = <<>>
    /\ batch = None
    /\ served = None
    /\ listener = [drain |-> FALSE, loop |-> "accepting", logged |-> 0, conns |-> <<>>]
    /\ decision = None

Idle == ~pending.is_some

\* A run of the reducer handles updates one after the other. The update that
\* ends a run is recorded in last together with the store it was applied to,
\* so that what a handler does is a relation between last.before and state.
\* Every update a run can handle is also the final update of another run.
Running == last.op = "none"

\* Handler<XdsWorkload>: XdsUpdate::Update(w), applied as a whole.
InsertWorkload(w, final) ==
    /\ Running /\ ops < MaxOps
    /\ LET done == updater_insert_workload(state, w)
           forgotten == IF done.removed THEN forget(state, xds_vips, w.uid) ELSE xds_vips
       IN  /\ state' = done.state
           /\ xds_vips' = IF done.stored
                          THEN MapInsert(forgotten, w.uid,
                                         listed_vips(workload_try_from(w).value, w.virtual_ips))
                          ELSE forgotten
           /\ last' = IF final
                       THEN [op |-> "insert_workload", w |-> w, before |-> state,
                             result |-> IF done.stored THEN "Ok" ELSE "Err"]
                       ELSE last
    /\ ops' = ops + 1
    /\ UNCHANGED <<pending, observed>>
    /\ UNCHANGED <<policy_vars, conc_vars, batch_vars, inbound_vars, listener_vars, decision_vars>>

\* Handler<XdsAddress>: XdsUpdate::Update of a service.
InsertService(s, final) ==
    /\ Running /\ ops < MaxOps
    /\ state' = insert_service(state, s)
    /\ last' = IF final THEN [op |-> "insert_service", service |-> s, before |-> state]
                ELSE last
    /\ ops' = ops + 1
    /\ UNCHANGED <<pending, xds_vips, observed>>
    /\ UNCHANGED <<policy_vars, conc_vars, batch_vars, inbound_vars, listener_vars, decision_vars>>

\* XdsUpdate::Remove(name).
Remove(key, final) ==
    /\ Running /\ ops < MaxOps
    /\ state' = remove(state, key)
    /\ xds_vips' = forget(state, xds_vips, key)
    /\ last' = IF final THEN [op |-> "remove", key |-> key, before |-> state] ELSE last
    /\ ops' = ops + 1
    /\ UNCHANGED <<pending, observed>>
    /\ UNCHANGED <<policy_vars, conc_vars, batch_vars, inbound_vars, listener_vars, decision_vars>>

Next ==
    \/ \E w \in XdsWorkloads, final \in BOOLEAN : InsertWorkload(w, final)
    \/ \E s \in XdsServices, final \in BOOLEAN : InsertService(s, final)
    \/ \E key \in RemoveKeys, final \in BOOLEAN : Remove(key, final)

Spec == Init /\ [][Next]_vars

---------------------------------------------------------------------------
(* The updater at the grain of its write locks, with a concurrent reader   *)

\* insert_workload returns the conversion error before it touches the store.
RaceInsertWorkloadRejected(w) ==
    /\ Idle /\ ops < MaxRaceOps
    /\ ~workload_try_from(w).ok
    /\ ops' = ops + 1
    /\ observed' = None
    /\ UNCHANGED <<state, pending, xds_vips, last>>
    /\ UNCHANGED <<policy_vars, conc_vars, batch_vars, inbound_vars, listener_vars, decision_vars>>

\* insert_workload up to the end of self.remove(&w.uid): the first write lock.
RaceInsertWorkloadRemove(w) ==
    /\ Idle /\ ops < MaxRaceOps
    /\ workload_try_from(w).ok
    /\ state' = remove(state, w.uid)
    /\ xds_vips' = forget(state, xds_vips, w.uid)
    /\ pending' = Some([w |-> w,
                        prev |-> MapGet(state.workloads.workloads_by_uid, w.uid)])
    /\ ops' = ops + 1
    /\ observed' = None
    /\ UNCHANGED last
    /\ UNCHANGED <<policy_vars, conc_vars, batch_vars, inbound_vars, listener_vars, decision_vars>>

\* insert_workload returns the error of service_endpoints: nothing is stored.
RaceInsertWorkloadEndpointError ==
    /\ pending.is_some
    /\ LET w == pending.value.w
       IN  ~derived_endpoints(workload_try_from(w).value, w.virtual_ips).ok
    /\ pending' = None
    /\ observed' = None
    /\ UNCHANGED <<state, xds_vips, last, ops>>
    /\ UNCHANGED <<policy_vars, conc_vars, batch_vars, inbound_vars, listener_vars, decision_vars>>

\* insert_workload from the second write lock to its end.
RaceInsertWorkloadStore ==
    /\ pending.is_some
    /\ LET w == pending.value.w
           workload == workload_try_from(w).value
           endpoints == derived_endpoints(workload, w.virtual_ips)
       IN  /\ endpoints.ok
           /\ state' = store_workload(state, workload, endpoints.value)
           /\ xds_vips' = MapInsert(xds_vips, w.uid, listed_vips(workload, w.virtual_ips))
    /\ pending' = None
    /\ observed' = None
    /\ UNCHANGED <<last, ops>>
    /\ UNCHANGED <<policy_vars, conc_vars, batch_vars, inbound_vars, listener_vars, decision_vars>>

RaceInsertService(s) ==
    /\ Idle /\ ops < MaxRaceOps
    /\ state' = insert_service(state, s)
    /\ ops' = ops + 1
    /\ observed' = None
    /\ UNCHANGED <<pending, xds_vips, last>>
    /\ UNCHANGED <<policy_vars, conc_vars, batch_vars, inbound_vars, listener_vars, decision_vars>>

RaceRemove(key) ==
    /\ Idle /\ ops < MaxRaceOps
    /\ state' = remove(state, key)
    /\ xds_vips' = forget(state, xds_vips, key)
    /\ ops' = ops + 1
    /\ observed' = None
    /\ UNCHANGED <<pending, last>>
    /\ UNCHANGED <<policy_vars, conc_vars, batch_vars, inbound_vars, listener_vars, decision_vars>>

\* A reader takes the read lock and calls find_workload; the updater may be
\* between the two write locks of insert_workload.
ReadWorkload(addr) ==
    /\ observed = None
    /\ observed' = Some([addr |-> addr, result |-> find_workload(state.workloads, addr)])
    /\ UNCHANGED <<state, pending, xds_vips, last, ops>>
    /\ UNCHANGED <<policy_vars, conc_vars, batch_vars, inbound_vars, listener_vars, decision_vars>>

NextRace ==
    \/ \E w \in XdsWorkloads : RaceInsertWorkloadRejected(w)
    \/ \E w \in XdsWorkloads : RaceInsertWorkloadRemove(w)
    \/ RaceInsertWorkloadEndpointError
    \/ RaceInsertWorkloadStore
    \/ \E s \in XdsServices : RaceInsertService(s)
    \/ \E key \in RemoveKeys : RaceRemove(key)
    \/ \E addr \in ReadAddrs : ReadWorkload(addr)

SpecRace == Init /\ [][NextRace]_vars

---------------------------------------------------------------------------
(* Authorization updates: Handler<XdsAuthorization>                        *)

RbacScopes == {"Global", "Namespace", "WorkloadSelector"}
Authorizations ==
    [name : {<<"p1">>, <<"p2">>}, namespace : {<<"ns1">>, <<"ns2">>}, scope : RbacScopes]
PolicyNames == {to_key(rbac) : rbac \in Authorizations} \cup {<<"ns1", "/", "p9">>}

policy_store == [policies |-> policies, policies_by_namespace |-> policies_by_namespace]

\* ProxyStateUpdater::insert_authorization, for a policy that converts.
InsertAuthorization(rbac) ==
    /\ policies' = insert_authorization(policy_store, rbac).policies
    /\ policies_by_namespace' = insert_authorization(policy_store, rbac).policies_by_namespace
    /\ UNCHANGED <<state, pending, xds_vips, observed, last, ops, conc_vars, batch_vars, inbound_vars, listener_vars, decision_vars>>

\* ProxyStateUpdater::remove_authorization.
RemoveAuthorization(name) ==
    /\ policies' = remove_rbac(policy_store, name).policies
    /\ policies_by_namespace' = remove_rbac(policy_store, name).policies_by_namespace
    /\ UNCHANGED <<state, pending, xds_vips, observed, last, ops, conc_vars, batch_vars, inbound_vars, listener_vars, decision_vars>>

NextPolicy ==
    \/ \E rbac \in Authorizations : InsertAuthorization(rbac)
    \/ \E name \in PolicyNames : RemoveAuthorization(name)

SpecPolicy == Init /\ [][NextPolicy]_vars

---------------------------------------------------------------------------
(* The WorkloadStore called directly: insert_workload and remove_workload  *)

\* The workloads that the conversion of the XdsWorkloads yields.
Workloads == {workload_try_from(w).value : w \in {x \in XdsWorkloads : workload_try_from(x).ok}}

\* WorkloadStore::insert_workload; a run may end with it.
StoreInsertWorkload(w, final) ==
    /\ Running
    /\ state' = [state EXCEPT !.workloads = insert_workload(@, w)]
    /\ last' = IF final THEN [op |-> "insert_workload", w |-> w, before |-> state.workloads]
                ELSE last
    /\ UNCHANGED <<pending, xds_vips, observed, ops, policy_vars, conc_vars, batch_vars, inbound_vars, listener_vars, decision_vars>>

\* remove_workload that also ends the relays of the listener's connections.
StoreRemoveWorkloadClosing(uid) ==
    /\ Running
    /\ state' = [state EXCEPT !.workloads = remove_workload(@, uid).store]
    /\ listener' = [listener EXCEPT !.conns =
           [i \in DOMAIN @ |-> [@[i] EXCEPT !.splice = IF @ = "relaying" THEN "finished" ELSE @]]]
    /\ UNCHANGED <<pending, xds_vips, observed, last, ops, policy_vars, conc_vars, batch_vars, inbound_vars, decision_vars>>

\* WorkloadStore::remove_workload.
StoreRemoveWorkload(uid) ==
    /\ Running
    /\ state' = [state EXCEPT !.workloads = remove_workload(@, uid).store]
    /\ UNCHANGED <<pending, xds_vips, observed, last, ops, policy_vars, conc_vars, batch_vars, inbound_vars, listener_vars, decision_vars>>

\* WorkloadStore::remove_workload of the UID of the workload that the final
\* insert_workload of the run stored.
StoreRemoveInserted ==
    /\ last.op = "insert_workload"
    /\ state' = [state EXCEPT !.workloads = remove_workload(@, last.w.uid).store]
    /\ last' = [last EXCEPT !.op = "insert_then_remove"]
    /\ UNCHANGED <<pending, xds_vips, observed, ops, policy_vars, conc_vars, batch_vars, inbound_vars, listener_vars, decision_vars>>

NextStore ==
    \/ \E w \in Workloads, final \in BOOLEAN : StoreInsertWorkload(w, final)
    \/ \E uid \in UIDs : StoreRemoveWorkload(uid)
    \/ StoreRemoveInserted

SpecStore == Init /\ [][NextStore]_vars

---------------------------------------------------------------------------
(* Two clones of ProxyStateUpdater apply one update each, concurrently     *)

\* Number of updates applied one after the other before the two clones start.
MaxPriorOps == 1

XdsWorkloadOf(uid, ip, status, virtual_ips) ==
    [uid |-> uid, addresses |-> <<ip>>, network |-> OwnNetwork, status |-> status,
     virtual_ips |-> virtual_ips]

\* XdsUpdate::Update(resource) and XdsUpdate::Remove(name).
ConcUpdates ==
    {[kind |-> "workload", w |-> w] :
        w \in {XdsWorkloadOf(UID2, IP1, 0, <<KEY1>>), XdsWorkloadOf(UID2, IP2, 0, <<KEY1>>),
               XdsWorkloadOf(UID2, IP1, 1, <<>>), XdsWorkloadOf(UID1, IP1, 0, <<KEY1>>),
               XdsWorkloadOf(UID2, IP1, 0, <<<<"not-an-ip">>>>),
               XdsWorkloadOf(UID1, <<127, 0, 0>>, 0, <<>>)}}
    \cup {[kind |-> "service", s |-> s] :
             s \in {[namespace |-> <<"ns">>, hostname |-> <<"svc1">>,
                     addresses |-> <<XdsAddr(VIP1)>>]}}
    \cup {[kind |-> "remove", name |-> name] : name \in {UID2, <<"ns", "/", "svc2">>}}

\* One update applied as a whole, as Handler::handle applies it.
apply_update(st, u) ==
    CASE u.kind = "workload" -> updater_insert_workload(st, u.w).state
      [] u.kind = "service" -> insert_service(st, u.s)
      [] u.kind = "remove" -> remove(st, u.name)

\* Updates applied one after the other before the clones start.
ConcPrior(u) ==
    /\ updaters = <<>> /\ ops < MaxPriorOps
    /\ state' = apply_update(state, u)
    /\ ops' = ops + 1
    /\ UNCHANGED <<pending, xds_vips, observed, last, policy_vars, conc_vars, batch_vars, inbound_vars, listener_vars, decision_vars>>

\* Each clone receives its update; last keeps the store they start from.
ConcStart(u1, u2) ==
    /\ updaters = <<>>
    /\ updaters' = <<[update |-> u1, pc |-> "start"], [update |-> u2, pc |-> "start"]>>
    /\ last' = [op |-> "concurrent", before |-> state]
    /\ UNCHANGED <<state, pending, xds_vips, observed, ops, policy_vars, batch_vars, inbound_vars, listener_vars, decision_vars>>

\* insert_workload of clone i returns the conversion error.
ConcInsertWorkloadRejected(i) ==
    /\ i \in DOMAIN updaters
    /\ updaters[i].pc = "start" /\ updaters[i].update.kind = "workload"
    /\ ~workload_try_from(updaters[i].update.w).ok
    /\ updaters' = [updaters EXCEPT ![i].pc = "done"]
    /\ UNCHANGED <<state, pending, xds_vips, observed, last, ops, policy_vars, batch_vars, inbound_vars, listener_vars, decision_vars>>

\* insert_workload of clone i up to the end of self.remove(&w.uid).
ConcInsertWorkloadRemove(i) ==
    /\ i \in DOMAIN updaters
    /\ updaters[i].pc = "start" /\ updaters[i].update.kind = "workload"
    /\ workload_try_from(updaters[i].update.w).ok
    /\ state' = remove(state, updaters[i].update.w.uid)
    /\ updaters' = [updaters EXCEPT ![i].pc = "removed"]
    /\ UNCHANGED <<pending, xds_vips, observed, last, ops, policy_vars, batch_vars, inbound_vars, listener_vars, decision_vars>>

\* insert_workload of clone i from service_endpoints to its return.
ConcInsertWorkloadStore(i) ==
    /\ i \in DOMAIN updaters
    /\ updaters[i].pc = "removed"
    /\ LET w == updaters[i].update.w
           workload == workload_try_from(w).value
           endpoints == derived_endpoints(workload, w.virtual_ips)
       IN  state' = IF endpoints.ok THEN store_workload(state, workload, endpoints.value)
                    ELSE state
    /\ updaters' = [updaters EXCEPT ![i].pc = "done"]
    /\ UNCHANGED <<pending, xds_vips, observed, last, ops, policy_vars, batch_vars, inbound_vars, listener_vars, decision_vars>>

\* insert_service or remove of clone i, under its one write lock.
ConcLocked(i) ==
    /\ i \in DOMAIN updaters
    /\ updaters[i].pc = "start" /\ updaters[i].update.kind \in {"service", "remove"}
    /\ state' = apply_update(state, updaters[i].update)
    /\ updaters' = [updaters EXCEPT ![i].pc = "done"]
    /\ UNCHANGED <<pending, xds_vips, observed, last, ops, policy_vars, batch_vars, inbound_vars, listener_vars, decision_vars>>

NextConcurrent ==
    \/ \E u \in ConcUpdates : ConcPrior(u)
    \/ \E u1, u2 \in ConcUpdates : ConcStart(u1, u2)
    \/ \E i \in {1, 2} : ConcInsertWorkloadRejected(i)
    \/ \E i \in {1, 2} : ConcInsertWorkloadRemove(i)
    \/ \E i \in {1, 2} : ConcInsertWorkloadStore(i)
    \/ \E i \in {1, 2} : ConcLocked(i)

SpecConcurrent == Init /\ [][NextConcurrent]_vars

---------------------------------------------------------------------------
(* Handler::handle: a batch of updates                                     *)

\* Number of updates of a batch.
MaxBatchLen == 3

\* ProxyStateUpdater::insert_address: the store afterwards and Ok or Err.
insert_address_accepts_unknown(st, a) ==
    CASE a.type = "Workload" ->
             LET done == updater_insert_workload(st, a.w)
             IN  [state |-> done.state, ok |-> done.stored]
      [] a.type = "Service" -> [state |-> insert_service(st, a.s), ok |-> TRUE]
      [] OTHER -> [state |-> st, ok |-> TRUE]

insert_address(st, a) ==
    CASE a.type = "Workload" ->
             LET done == updater_insert_workload(st, a.w)
             IN  [state |-> done.state, ok |-> done.stored]
      [] a.type = "Service" -> [state |-> insert_service(st, a.s), ok |-> TRUE]
      [] OTHER -> [state |-> st, ok |-> FALSE]

\* The closure of Handler<XdsWorkload>::handle (xds.rs:194-200).
handle_workload(st, res) ==
    CASE res.kind = "Update" ->
             LET done == updater_insert_workload(st, res.resource)
             IN  [state |-> done.state, ok |-> done.stored]
      [] res.kind = "Remove" -> [state |-> remove(st, res.name), ok |-> TRUE]

\* The closure of Handler<XdsAddress>::handle (xds.rs:207-213).
handle_address(st, res) ==
    CASE res.kind = "Update" -> insert_address(st, res.resource)
      [] res.kind = "Remove" -> [state |-> remove(st, res.name), ok |-> TRUE]

handle_one(handler, st, res) ==
    IF handler = "Workload" THEN handle_workload(st, res) ELSE handle_address(st, res)

\* The workloads of the batches: a well-formed one, an unknown status, an
\* address of three bytes, a VIP key that is no address.
BatchWorkloads ==
    {XdsWorkloadOf(UID1, IP1, 0, <<KEY1>>), XdsWorkloadOf(UID2, IP2, 2, <<>>),
     XdsWorkloadOf(UID2, <<127, 0, 0>>, 0, <<>>),
     XdsWorkloadOf(UID1, IP2, 0, <<<<"not-an-ip">>>>)}

\* XdsUpdate<XdsWorkload> and XdsUpdate<XdsAddress>; name is XdsUpdate::name().
WorkloadUpdates ==
    {[kind |-> "Update", name |-> w.uid, resource |-> w] : w \in BatchWorkloads}
    \cup {[kind |-> "Remove", name |-> UID1]}
AddressUpdates ==
    {[kind |-> "Update", name |-> w.uid, resource |-> [type |-> "Workload", w |-> w]] :
        w \in BatchWorkloads}
    \cup {[kind |-> "Update", name |-> <<"ns", "/", "svc1">>,
           resource |-> [type |-> "Service",
                         s |-> [namespace |-> <<"ns">>, hostname |-> <<"svc1">>,
                                addresses |-> <<XdsAddr(VIP1)>>]]],
          [kind |-> "Update", name |-> <<"untyped">>, resource |-> [type |-> "None"]],
          [kind |-> "Remove", name |-> UID1]}

SeqsUpTo(S, n) == UNION {[1..k -> S] : k \in 0..n}

\* handle is called with a batch of updates.
BatchStart(handler, updates) ==
    /\ batch = None
    /\ batch' = Some([handler |-> handler, updates |-> updates, pos |-> 1,
                      rejects |-> <<>>, before |-> state])
    /\ UNCHANGED <<state, pending, xds_vips, observed, last, ops, policy_vars, conc_vars, inbound_vars, listener_vars, decision_vars>>

\* handle_single_resource: the next update is handled; an error adds the
\* update's name to the rejects and the batch goes on.
BatchHandleOne ==
    /\ batch.is_some /\ batch.value.pos <= Len(batch.value.updates)
    /\ LET res == batch.value.updates[batch.value.pos]
           done == handle_one(batch.value.handler, state, res)
       IN  /\ state' = done.state
           /\ batch' = Some([batch.value EXCEPT
                                !.pos = @ + 1,
                                !.rejects = IF done.ok THEN @ ELSE Append(@, res.name)])
    /\ UNCHANGED <<pending, xds_vips, observed, last, ops, policy_vars, conc_vars, inbound_vars, listener_vars, decision_vars>>

NextBatch ==
    \/ \E updates \in SeqsUpTo(WorkloadUpdates, MaxBatchLen) : BatchStart("Workload", updates)
    \/ \E updates \in SeqsUpTo(AddressUpdates, MaxBatchLen) : BatchStart("Address", updates)
    \/ BatchHandleOne

SpecBatch == Init /\ [][NextBatch]_vars

---------------------------------------------------------------------------
(* LocalClient::run: the store loaded from a local configuration           *)

\* LocalClient::run for one LocalWorkload (xds.rs:295-310): the workload is
\* stored and the endpoints of its vips are inserted, whatever its status.
local_insert_workload(st, wl) ==
    LET endpoints == service_endpoints(wl.workload, wl.vips)
    IN  [workloads |-> insert_workload(st.workloads, wl.workload),
         services |-> insert_endpoints(st.services, endpoints.value)]

RECURSIVE local_insert_workloads(_, _)
local_insert_workloads(st, wls) ==
    IF wls = <<>> THEN st
    ELSE local_insert_workloads(local_insert_workload(st, Head(wls)), Tail(wls))

RECURSIVE local_insert_services(_, _)
local_insert_services(ss, svcs) ==
    IF svcs = <<>> THEN ss
    ELSE local_insert_services(services_insert(ss, Head(svcs)), Tail(svcs))

\* LocalClient::run under its one write lock: the workloads, then the services.
local_client_run(st, config) ==
    LET loaded == local_insert_workloads(st, config.workloads)
    IN  [loaded EXCEPT !.services = local_insert_services(@, config.services)]

---------------------------------------------------------------------------
(* Inbound::serve_connect                                                  *)

V4(octets) == [kind |-> "V4", octets |-> octets]
IP3 == <<127, 0, 0, 3>>
IP4 == <<127, 0, 0, 4>>
IP9 == <<127, 0, 0, 9>>

\* Workload::identity.
identity(w) ==
    [trust_domain |-> w.trust_domain, namespace |-> w.namespace,
     service_account |-> w.service_account]

\* DemandProxyState::fetch_workload and fetch_address: the workload index
\* first, then the VIP index.
fetch_workload(st, addr) == find_workload(st.workloads, addr)
fetch_address(st, addr) ==
    IF fetch_workload(st, addr).is_some
    THEN Some([type |-> "Workload", wl |-> fetch_workload(st, addr).value])
    ELSE IF get_by_vip(st.services, addr).is_some
    THEN Some([type |-> "Service", svc |-> get_by_vip(st.services, addr).value])
    ELSE None

\* Inbound::check_gateway_address: Ok(bool) or Err(UnsupportedFeature).
check_gateway_address(st, conn, gateway_address) ==
    IF ~gateway_address.is_some THEN [ok |-> TRUE, value |-> FALSE]
    ELSE IF gateway_address.value.destination.kind = "Hostname"
    THEN [ok |-> FALSE, error |-> "UnsupportedFeature"]
    ELSE LET found == fetch_address(st, gateway_address.value.destination.value)
         IN  [ok |-> TRUE,
              value |->
                  IF ~found.is_some THEN FALSE
                  ELSE IF found.value.type = "Workload"
                  THEN Some(identity(found.value.wl)) = conn.src_identity
                  ELSE \E ip \in DOMAIN found.value.svc.endpoints :
                           LET wl == fetch_workload(st, ip)
                           IN  (IF wl.is_some THEN Some(identity(wl.value)) ELSE None)
                                   = conn.src_identity]

check_waypoint(st, upstream, conn) == check_gateway_address(st, conn, upstream.waypoint)
check_gateway(st, upstream, conn) == check_gateway_address(st, conn, upstream.network_gateway)

\* uri.to_string().parse::<SocketAddr>().
SocketAddrText ==
    [t \in {"127.0.0.1:8080", "127.0.0.9:8080"} |->
        [ip |-> V4(IF t = "127.0.0.1:8080" THEN IP1 ELSE IP9), port |-> 8080]]
\* A parse that takes every authority for 127.0.0.1:8080.
parse_socket_addr_lenient(uri) ==
    [ok |-> TRUE, value |-> SocketAddrText["127.0.0.1:8080"]]

parse_socket_addr(uri) ==
    IF uri \in DOMAIN SocketAddrText THEN [ok |-> TRUE, value |-> SocketAddrText[uri]]
    ELSE [ok |-> FALSE, error |-> "AddrParseError"]

\* get_original_src_from_fwded: the address of a Forwarded header "for=<ip>".
get_original_src_from_fwded(req) ==
    IF req.forwarded.is_some /\ req.forwarded.value = "for=127.0.0.9" THEN Some(V4(IP9))
    ELSE None

\* The source address serve_connect uses (inbound.rs:307-315) that trusts the
\* Forwarded header of every peer.
choose_source_ip_trusting(from_waypoint, req, conn) ==
    IF get_original_src_from_fwded(req).is_some
    THEN get_original_src_from_fwded(req).value ELSE conn.src_ip

\* The source address serve_connect uses (inbound.rs:307-315).
choose_source_ip(from_waypoint, req, conn) ==
    IF from_waypoint
    THEN IF get_original_src_from_fwded(req).is_some
         THEN get_original_src_from_fwded(req).value ELSE conn.src_ip
    ELSE conn.src_ip

\* A response sent before the destination workload is known.
early_response(status) ==
    [kind |-> "response", status |-> status, gated |-> FALSE, rbac_run |-> FALSE,
     connect |-> None]

\* A response of the gates: the policy check and the waypoint check.
gate_response(status, has_waypoint, from_waypoint, from_gateway, rbac_run) ==
    [kind |-> "response", status |-> status, gated |-> TRUE,
     has_waypoint |-> has_waypoint, from_waypoint |-> from_waypoint,
     from_gateway |-> from_gateway, rbac_run |-> rbac_run, connect |-> None]

\* The source lookup of serve_connect that also looks the source of a gateway
\* request up, on the proxy's network.
lookup_source_of_any_peer(st, conn, from_gateway, source_ip) ==
    [address |-> Some(network_addr(conn.dst_network, source_ip)),
     source |-> fetch_workload(st, network_addr(conn.dst_network, source_ip))]

\* The source workload of the metrics (inbound.rs:320-331): none, and no read
\* of the store, for a request from the network gateway; otherwise the workload
\* at the chosen source IP on the proxy's own network.
lookup_source(st, conn, from_gateway, source_ip) ==
    IF from_gateway
    THEN [address |-> None, source |-> None]
    ELSE [address |-> Some(network_addr(conn.dst_network, source_ip)),
          source |-> fetch_workload(st, network_addr(conn.dst_network, source_ip))]

\* enable_original_source.then_some(source_ip) (inbound.rs:353): the address
\* freebind_connect binds the upstream socket to.
orig_src(enable_original_source, source_ip) ==
    IF enable_original_source THEN Some(source_ip) ELSE None

\* Inbound::serve_connect. env gives the answers of the parts outside this
\* file: assert_rbac (allows) and freebind_connect (connects), and the
\* enable_original_source of the proxy's configuration.
serve_connect(st, conn, req, env) ==
    IF req.method # "CONNECT" THEN early_response(404)
    ELSE LET addr == parse_socket_addr(req.uri)
    IN  IF ~addr.ok THEN early_response(400)
        ELSE IF addr.value.ip # conn.dst.ip THEN early_response(400)
        ELSE LET upstream == fetch_workload(st, network_addr(conn.dst_network, addr.value.ip))
        IN  IF ~upstream.is_some THEN early_response(404)
            ELSE LET has_waypoint == upstream.value.waypoint.is_some
                     waypoint == check_waypoint(st, upstream.value, conn)
                     gateway == check_gateway(st, upstream.value, conn)
            IN  IF ~waypoint.ok \/ ~gateway.ok
                THEN [kind |-> "panic", gated |-> FALSE, rbac_run |-> FALSE, connect |-> None,
                      has_waypoint |-> has_waypoint]
                ELSE LET from_waypoint == waypoint.value
                         from_gateway == gateway.value
                         rbac_run == ~from_waypoint
                         source_ip == choose_source_ip(from_waypoint, req, conn)
                IN  IF rbac_run /\ ~env.allows
                    THEN gate_response(401, has_waypoint, from_waypoint, from_gateway, rbac_run)
                    ELSE IF has_waypoint /\ ~from_waypoint
                    THEN gate_response(401, has_waypoint, from_waypoint, from_gateway, rbac_run)
                    ELSE [kind |-> "response",
                          status |-> IF env.connects THEN 200 ELSE 503,
                          gated |-> TRUE, has_waypoint |-> has_waypoint,
                          from_waypoint |-> from_waypoint, from_gateway |-> from_gateway,
                          rbac_run |-> rbac_run, source_ip |-> source_ip,
                          source |-> lookup_source(st, conn, from_gateway, source_ip),
                          connect |-> Some([addr |-> addr.value, ok |-> env.connects,
                                            orig_src |-> orig_src(env.enable_original_source,
                                                                  source_ip)])]

---------------------------------------------------------------------------
(* The inbound proxy over a store loaded from a local configuration         *)

Identity(service_account) ==
    [trust_domain |-> "cluster.local", namespace |-> "ns", service_account |-> service_account]

GatewayAtAddress(ip) ==
    Some([destination |-> [kind |-> "Address", value |-> network_addr(OwnNetwork, V4(ip))],
          port |-> 15008])
GatewayAtHostname ==
    Some([destination |-> [kind |-> "Hostname",
                           value |-> [namespace |-> <<"ns">>, hostname |-> <<"waypoint">>]],
          port |-> 15008])

InboundWorkload(uid, ip, service_account, waypoint, network_gateway) ==
    [uid |-> uid, workload_ips |-> <<V4(ip)>>, network |-> OwnNetwork, status |-> "Healthy",
     trust_domain |-> "cluster.local", namespace |-> "ns",
     service_account |-> service_account,
     waypoint |-> waypoint, network_gateway |-> network_gateway]

\* The destination workload at 127.0.0.1, with each way to designate a waypoint
\* (none, a workload address, a service VIP, a hostname) and a network gateway.
Waypoints == {None, GatewayAtAddress(IP2), GatewayAtAddress(VIP1), GatewayAtHostname}
NetworkGateways == {None, GatewayAtAddress(IP3), GatewayAtHostname}
RemoteNetwork == <<"remote">>
Destinations ==
    {[workload |-> InboundWorkload(<<"dest">>, IP1, "dest", wp, gw), vips |-> <<>>] :
        wp \in Waypoints, gw \in NetworkGateways}
    \cup {[workload |-> [InboundWorkload(<<"dest">>, IP1, "dest", None, None)
                            EXCEPT !.network = RemoteNetwork],
           vips |-> <<>>]}

\* The waypoint workload, backing VIP 127.0.1.1; a configuration may list its
\* UID a second time at another address.
WaypointAt(ip) ==
    [workload |-> InboundWorkload(<<"waypoint">>, ip, "waypoint", None, None), vips |-> <<KEY1>>]
GatewayWorkload ==
    [workload |-> InboundWorkload(<<"gateway">>, IP3, "gateway", None, None), vips |-> <<>>]
WaypointService ==
    [namespace |-> <<"ns">>, hostname |-> <<"waypoint">>,
     vips |-> <<network_addr(OwnNetwork, V4(VIP1))>>, endpoints |-> EmptyMap]

LocalConfigs ==
    {[workloads |-> <<d>> \o wps \o gws, services |-> svcs] :
        d \in Destinations,
        wps \in {<<>>, <<WaypointAt(IP2)>>, <<WaypointAt(IP2), WaypointAt(IP4)>>},
        gws \in {<<>>, <<GatewayWorkload>>},
        svcs \in {<<>>, <<WaypointService>>}}

\* Inbound::run (inbound.rs:98-106): the connection of an accepted TLS stream.
Connections ==
    [src_identity : {None, Some(Identity("waypoint")), Some(Identity("gateway")),
                     Some(Identity("client"))},
     src_ip : {V4(IP2), V4(IP3)},
     dst_network : {OwnNetwork},
     dst : {[ip |-> V4(IP1), port |-> 15008], [ip |-> V4(IP9), port |-> 15008]}]

Requests ==
    [method : {"CONNECT"}, uri : {"127.0.0.1:8080"},
     forwarded : {None, Some("for=127.0.0.9"), Some("for=unknown")}]
    \cup [method : {"GET"}, uri : {"127.0.0.1:8080"}, forwarded : {None}]
    \cup [method : {"CONNECT"}, uri : {"127.0.0.9:8080", "example.com"}, forwarded : {None}]

Environments == [allows : BOOLEAN, connects : BOOLEAN, enable_original_source : BOOLEAN]

\* LocalClient::run, once, on the empty store.
LocalClientRun(config) ==
    /\ ops = 0
    /\ state' = local_client_run(state, config)
    /\ ops' = 1
    /\ UNCHANGED <<pending, xds_vips, observed, last, policy_vars, conc_vars, batch_vars, inbound_vars, listener_vars, decision_vars>>

\* Inbound::serve_connect for one request of one connection.
ServeConnect(conn, req, env) ==
    /\ ops = 1
    /\ served = None
    /\ served' = Some([conn |-> conn, req |-> req, env |-> env,
                       result |-> serve_connect(state, conn, req, env)])
    /\ UNCHANGED <<state, pending, xds_vips, observed, last, ops, policy_vars, conc_vars, batch_vars,
                   listener_vars, decision_vars>>

NextInbound ==
    \/ \E config \in LocalConfigs : LocalClientRun(config)
    \/ \E conn \in Connections, req \in Requests, env \in Environments :
           ServeConnect(conn, req, env)

SpecInbound == Init /\ [][NextInbound]_vars

---------------------------------------------------------------------------
(* Inbound::run: the accept loop, the connection tasks and the drain       *)

MaxConns == 2

\* fetch_cert that falls back to an acceptor of the peer-less default identity
\* when no workload is stored at the destination.
fetch_cert_with_fallback(st, network, orig_dst_ip) ==
    LET wip == network_addr(network, orig_dst_ip)
    IN  [ok |-> TRUE,
         identity |-> IF fetch_workload(st, wip).is_some
                      THEN identity(fetch_workload(st, wip).value)
                      ELSE Identity("default")]

\* InboundCertProvider::fetch_cert: the identity the acceptor is requested
\* for, or TlsError::CertificateLookup(wip).
fetch_cert(st, network, orig_dst_ip) ==
    LET wip == network_addr(network, orig_dst_ip)
    IN  IF fetch_workload(st, wip).is_some
        THEN [ok |-> TRUE, identity |-> identity(fetch_workload(st, wip).value)]
        ELSE [ok |-> FALSE, error |-> "CertificateLookup", address |-> wip]

\* handle_inbound that reports success and starts the splice task whatever
\* freebind_connect returned.
handle_inbound_ignoring_error(stream_ok) == [ok |-> TRUE, splice |-> "awaiting_upgrade"]

\* Inbound::handle_inbound for an Hbone request: on a connected stream the
\* splice task is spawned and Ok(()) returned, otherwise the error.
handle_inbound(stream_ok) ==
    IF stream_ok THEN [ok |-> TRUE, splice |-> "awaiting_upgrade"]
    ELSE [ok |-> FALSE, splice |-> "none"]

\* hyper::upgrade::on(req) resolves once the 200 of the CONNECT has been sent.
upgrade_ready(c) == c.status = Some(200)

\* A connection of the listener: tls_server yields it, and run spawns its task
\* with a clone of the drain handle, only when fetch_cert gave an acceptor.
NewConnection(orig_dst_ip, src_identity, cert) ==
    [dst |-> orig_dst_ip, src_identity |-> src_identity, cert |-> cert,
     phase |-> IF cert.ok THEN "serving" ELSE "tls_failed",
     handle |-> cert.ok,
     request |-> "none", upstream |-> "none", result |-> None, status |-> None,
     splice |-> "none"]

\* The Connection built at inbound.rs:98-106.
connection_of(c) ==
    [src_identity |-> c.src_identity, src_ip |-> V4(IP2), dst_network |-> OwnNetwork,
     dst |-> [ip |-> c.dst, port |-> 15008]]

TunnelRequest == [method |-> "CONNECT", uri |-> "127.0.0.1:8080", forwarded |-> None]

\* An inner request or its splice task is under way.
in_flight(c) ==
    c.request \in {"connecting", "handled"} \/ c.splice \in {"awaiting_upgrade", "relaying"}

\* Local configurations of one destination workload, on the own network or on
\* another one.
ListenerConfigs ==
    {config \in LocalConfigs :
        /\ Len(config.workloads) = 1 /\ config.services = <<>>
        /\ config.workloads[1].workload.waypoint = None
        /\ config.workloads[1].workload.network_gateway = None}

\* The accept loop yields a connection: fetch_cert reads the store now.
Accept(orig_dst_ip, src_identity) ==
    /\ listener.loop = "accepting" /\ ~listener.drain
    /\ Len(listener.conns) < MaxConns
    /\ listener' = [listener EXCEPT !.conns =
           Append(@, NewConnection(orig_dst_ip, src_identity,
                                   fetch_cert(state, OwnNetwork, orig_dst_ip)))]
    /\ UNCHANGED <<state, pending, xds_vips, observed, last, ops, policy_vars, conc_vars,
                   batch_vars, inbound_vars, decision_vars>>

\* An inner request on a served connection: serve_connect up to handle_inbound.
RequestArrives(i, allows) ==
    /\ i \in DOMAIN listener.conns
    /\ listener.conns[i].phase = "serving" /\ listener.conns[i].request = "none"
    /\ LET r == serve_connect(state, connection_of(listener.conns[i]), TunnelRequest,
                              [allows |-> allows, connects |-> TRUE, enable_original_source |-> FALSE])
       IN  listener' = [listener EXCEPT !.conns[i] =
               IF r.kind = "panic"
               THEN [@ EXCEPT !.request = "panicked", !.phase = "done", !.handle = FALSE]
               ELSE IF r.connect.is_some
               THEN [@ EXCEPT !.request = "connecting"]
               ELSE [@ EXCEPT !.request = "responded", !.status = Some(r.status)]]
    /\ UNCHANGED <<state, pending, xds_vips, observed, last, ops, policy_vars, conc_vars,
                   batch_vars, inbound_vars, decision_vars>>

\* handle_inbound: freebind_connect returns and, if connected, the splice task
\* is spawned.
HandleInbound(i, stream_ok) ==
    /\ i \in DOMAIN listener.conns
    /\ listener.conns[i].request = "connecting"
    /\ listener' = [listener EXCEPT !.conns[i] =
           [@ EXCEPT !.request = "handled",
                     !.upstream = IF stream_ok THEN "connected" ELSE "failed",
                     !.result = Some(handle_inbound(stream_ok).ok),
                     !.splice = handle_inbound(stream_ok).splice]]
    /\ UNCHANGED <<state, pending, xds_vips, observed, last, ops, policy_vars, conc_vars,
                   batch_vars, inbound_vars, decision_vars>>

\* serve_connect answers with the status of handle_inbound's result.
Respond(i) ==
    /\ i \in DOMAIN listener.conns
    /\ listener.conns[i].request = "handled"
    /\ listener' = [listener EXCEPT !.conns[i] =
           [@ EXCEPT !.request = "responded",
                     !.status = Some(IF listener.conns[i].result.value THEN 200 ELSE 503)]]
    /\ UNCHANGED <<state, pending, xds_vips, observed, last, ops, policy_vars, conc_vars,
                   batch_vars, inbound_vars, decision_vars>>

\* The splice task: hyper::upgrade::on(req) resolves and copy_hbone starts.
Upgrade(i) ==
    /\ i \in DOMAIN listener.conns
    /\ listener.conns[i].splice = "awaiting_upgrade"
    /\ upgrade_ready(listener.conns[i])
    /\ listener' = [listener EXCEPT !.conns[i].splice = "relaying"]
    /\ UNCHANGED <<state, pending, xds_vips, observed, last, ops, policy_vars, conc_vars,
                   batch_vars, inbound_vars, decision_vars>>

\* The splice task: copy_hbone returns.
RelayDone(i) ==
    /\ i \in DOMAIN listener.conns
    /\ listener.conns[i].splice = "relaying"
    /\ listener' = [listener EXCEPT !.conns[i].splice = "finished"]
    /\ UNCHANGED <<state, pending, xds_vips, observed, last, ops, policy_vars, conc_vars,
                   batch_vars, inbound_vars, decision_vars>>

\* select: serving finished first; the task ends and drops its drain handle.
ServeDone(i) ==
    /\ i \in DOMAIN listener.conns
    /\ listener.conns[i].phase = "serving" /\ ~in_flight(listener.conns[i])
    /\ listener' = [listener EXCEPT !.conns[i].phase = "done", !.conns[i].handle = FALSE]
    /\ UNCHANGED <<state, pending, xds_vips, observed, last, ops, policy_vars, conc_vars,
                   batch_vars, inbound_vars, decision_vars>>

\* The drain signal fires.
DrainSignal ==
    /\ ~listener.drain
    /\ listener' = [listener EXCEPT !.drain = TRUE]
    /\ UNCHANGED <<state, pending, xds_vips, observed, last, ops, policy_vars, conc_vars,
                   batch_vars, inbound_vars, decision_vars>>

\* The Either::Left arm with the resolved signal bound to `_`: the drain handle
\* is dropped when the arm is entered.
graceful_shutdown_releasing(c) == [c EXCEPT !.phase = "graceful", !.handle = FALSE]

\* The Either::Left arm (inbound.rs:128-132): `_shutdown` keeps the drain handle
\* while graceful_shutdown runs and the server is awaited.
graceful_shutdown(c) == [c EXCEPT !.phase = "graceful"]

\* select: drain.signaled() first; graceful_shutdown, then server.await.
GracefulShutdown(i) ==
    /\ i \in DOMAIN listener.conns
    /\ listener.drain /\ listener.conns[i].phase = "serving"
    /\ listener' = [listener EXCEPT !.conns[i] = graceful_shutdown(@)]
    /\ UNCHANGED <<state, pending, xds_vips, observed, last, ops, policy_vars, conc_vars,
                   batch_vars, inbound_vars, decision_vars>>

\* A request that reaches a connection in graceful shutdown is refused.
RequestRefused(i) ==
    /\ i \in DOMAIN listener.conns
    /\ listener.conns[i].phase = "graceful" /\ listener.conns[i].request = "none"
    /\ listener' = [listener EXCEPT !.conns[i].request = "refused"]
    /\ UNCHANGED <<state, pending, xds_vips, observed, last, ops, policy_vars, conc_vars,
                   batch_vars, inbound_vars, decision_vars>>

\* server.await returns after graceful_shutdown: the in-flight requests are
\* over; the task ends and drops its drain handle.
GracefulDone(i) ==
    /\ i \in DOMAIN listener.conns
    /\ listener.conns[i].phase = "graceful" /\ ~in_flight(listener.conns[i])
    /\ listener' = [listener EXCEPT !.conns[i].phase = "done", !.conns[i].handle = FALSE]
    /\ UNCHANGED <<state, pending, xds_vips, observed, last, ops, policy_vars, conc_vars,
                   batch_vars, inbound_vars, decision_vars>>

\* take_until(drain.signaled()) ends the stream: the while loop is left and
\* run logs "all inbound connections drained" and returns.
LoopExit ==
    /\ listener.drain /\ listener.loop = "accepting"
    /\ listener' = [listener EXCEPT !.loop = "exited", !.logged = @ + 1]
    /\ UNCHANGED <<state, pending, xds_vips, observed, last, ops, policy_vars, conc_vars,
                   batch_vars, inbound_vars, decision_vars>>

NextListener ==
    \/ \E config \in ListenerConfigs : LocalClientRun(config)
    \/ StoreRemoveWorkload(<<"dest">>)
    \/ \E ip \in {V4(IP1), V4(IP9)} : Accept(ip, Some(Identity("client")))
    \/ \E i \in 1..MaxConns :
           \/ \E allows \in BOOLEAN : RequestArrives(i, allows)
           \/ \E stream_ok \in BOOLEAN : HandleInbound(i, stream_ok)
           \/ Respond(i)
           \/ Upgrade(i)
           \/ RelayDone(i)
           \/ ServeDone(i)
           \/ GracefulShutdown(i)
           \/ RequestRefused(i)
           \/ GracefulDone(i)
    \/ DrainSignal
    \/ LoopExit

SpecListener == Init /\ [][NextListener]_vars

\* The runtime polls the accept loop and every connection task once the drain
\* signal has woken them.
ListenerFairness ==
    /\ WF_vars(LoopExit)
    /\ \A i \in 1..MaxConns : WF_vars(GracefulShutdown(i))

SpecListenerFair == SpecListener /\ ListenerFairness

---------------------------------------------------------------------------
(* Inbound::serve_connect read by read, beside the reducer                 *)

MaxDecisionOps == 3

\* A policy that denies every connection, and DemandProxyState::assert_rbac:
\* the connection is allowed unless a stored policy denies it.
DenyAll ==
    [name |-> <<"deny">>, namespace |-> <<"ns">>, scope |-> "Namespace", action |-> "Deny"]
assert_rbac(stored_policies, conn) ==
    \A key \in DOMAIN stored_policies : stored_policies[key].action # "Deny"

\* The store at one instant: what one read lock sees.
snapshot(st, stored_policies) == [state |-> st, policies |-> stored_policies]

\* The store states that exist while a request is being decided.
observe(d, snap) ==
    IF d.is_some /\ d.value.pc # "done"
    THEN Some([d.value EXCEPT !.seen = @ \cup {snap}])
    ELSE d

\* The destination with and without a waypoint, and the waypoint workload.
DecisionDestinations ==
    {InboundWorkload(<<"dest">>, IP1, "dest", wp, None) : wp \in {None, GatewayAtAddress(IP2)}}
DecisionConfigs ==
    {config \in LocalConfigs :
        /\ Len(config.workloads) = 2 /\ config.services = <<>>
        /\ config.workloads[1].workload \in DecisionDestinations
        /\ config.workloads[2] = WaypointAt(IP2)}
DecisionConnections ==
    {c \in Connections :
        /\ c.src_identity \in {Some(Identity("client")), Some(Identity("waypoint"))}
        /\ c.src_ip = V4(IP2) /\ c.dst.ip = V4(IP1)}

\* ProxyStateUpdater::insert_workload for a resource that converts to w and
\* lists no VIP.
DecisionInsertWorkload(w) ==
    /\ ops >= 1 /\ ops < 1 + MaxDecisionOps
    /\ state' = store_workload(remove(state, w.uid), w, <<>>)
    /\ ops' = ops + 1
    /\ decision' = observe(decision, snapshot(state', policies))
    /\ UNCHANGED <<pending, xds_vips, observed, last, policy_vars, conc_vars, batch_vars,
                   inbound_vars, listener_vars>>

\* ProxyStateUpdater::insert_authorization.
DecisionInsertAuthorization(rbac) ==
    /\ ops >= 1 /\ ops < 1 + MaxDecisionOps
    /\ policies' = insert_authorization(policy_store, rbac).policies
    /\ policies_by_namespace' = insert_authorization(policy_store, rbac).policies_by_namespace
    /\ ops' = ops + 1
    /\ decision' = observe(decision, snapshot(state, policies'))
    /\ UNCHANGED <<state, pending, xds_vips, observed, last, conc_vars, batch_vars,
                   inbound_vars, listener_vars>>

\* ProxyStateUpdater::remove_authorization.
DecisionRemoveAuthorization(name) ==
    /\ ops >= 1 /\ ops < 1 + MaxDecisionOps
    /\ policies' = remove_rbac(policy_store, name).policies
    /\ policies_by_namespace' = remove_rbac(policy_store, name).policies_by_namespace
    /\ ops' = ops + 1
    /\ decision' = observe(decision, snapshot(state, policies'))
    /\ UNCHANGED <<state, pending, xds_vips, observed, last, conc_vars, batch_vars,
                   inbound_vars, listener_vars>>

\* serve_connect up to its first read: fetch_workload of the destination.
DecisionStart(conn) ==
    /\ ops >= 1 /\ decision = None
    /\ LET upstream == fetch_workload(state, network_addr(conn.dst_network, conn.dst.ip))
       IN  decision' = Some([pc |-> IF upstream.is_some THEN "check_waypoint" ELSE "done",
                             conn |-> conn, upstream |-> upstream,
                             from_waypoint |-> FALSE, from_gateway |-> FALSE,
                             status |-> IF upstream.is_some THEN None ELSE Some(404),
                             seen |-> {snapshot(state, policies)}])
    /\ UNCHANGED <<state, pending, xds_vips, observed, last, ops, policy_vars, conc_vars,
                   batch_vars, inbound_vars, listener_vars>>

\* check_waypoint(...).await.unwrap(): the second read.
DecisionCheckWaypoint ==
    /\ decision.is_some /\ decision.value.pc = "check_waypoint"
    /\ LET d == decision.value
           r == check_waypoint(state, d.upstream.value, d.conn)
       IN  decision' = Some(IF r.ok
                            THEN [d EXCEPT !.pc = "check_gateway", !.from_waypoint = r.value]
                            ELSE [d EXCEPT !.pc = "done"])
    /\ UNCHANGED <<state, pending, xds_vips, observed, last, ops, policy_vars, conc_vars,
                   batch_vars, inbound_vars, listener_vars>>

\* check_gateway(...).await.unwrap(): the third read.
DecisionCheckGateway ==
    /\ decision.is_some /\ decision.value.pc = "check_gateway"
    /\ LET d == decision.value
           r == check_gateway(state, d.upstream.value, d.conn)
       IN  decision' = Some(IF r.ok
                            THEN [d EXCEPT !.pc = "rbac", !.from_gateway = r.value]
                            ELSE [d EXCEPT !.pc = "done"])
    /\ UNCHANGED <<state, pending, xds_vips, observed, last, ops, policy_vars, conc_vars,
                   batch_vars, inbound_vars, listener_vars>>

\* The policy check, the last read, then the bypass check on the upstream
\* record of the first read; the upstream connect succeeds.
DecisionRbac ==
    /\ decision.is_some /\ decision.value.pc = "rbac"
    /\ LET d == decision.value
           has_waypoint == d.upstream.value.waypoint.is_some
       IN  decision' = Some([d EXCEPT
               !.pc = "done",
               !.status = Some(IF ~d.from_waypoint /\ ~assert_rbac(policies, d.conn) THEN 401
                               ELSE IF has_waypoint /\ ~d.from_waypoint THEN 401
                               ELSE 200)])
    /\ UNCHANGED <<state, pending, xds_vips, observed, last, ops, policy_vars, conc_vars,
                   batch_vars, inbound_vars, listener_vars>>

NextDecision ==
    \/ \E config \in DecisionConfigs : LocalClientRun(config)
    \/ \E w \in DecisionDestinations : DecisionInsertWorkload(w)
    \/ DecisionInsertAuthorization(DenyAll)
    \/ DecisionRemoveAuthorization(to_key(DenyAll))
    \/ \E conn \in DecisionConnections : DecisionStart(conn)
    \/ DecisionCheckWaypoint
    \/ DecisionCheckGateway
    \/ DecisionRbac

SpecDecision == Init /\ [][NextDecision]_vars

---------------------------------------------------------------------------
(* Properties                                                              *)

ByUid == state.workloads.workloads_by_uid
ByAddr == state.workloads.workloads
Services == state.services

\* The service records the store holds: those of by_host and those of by_vip.
stored_services(ss) == Range(ss.by_host) \cup Range(ss.by_vip)
\* The addresses that have an endpoint in some service or in the staging area.
endpoint_addrs(ss) ==
    UNION {DOMAIN svc.endpoints : svc \in stored_services(ss)}
    \cup UNION {DOMAIN ss.staged_vips[v] : v \in DOMAIN ss.staged_vips}

\* C1: every IP of every workload of the UID index is a key of the address
\* index, and that key maps to the record of that same workload.
C1_AddressIndexCoversUidIndex ==
    \A uid \in DOMAIN ByUid :
        \A addr \in workload_addrs(ByUid[uid]) :
            addr \in DOMAIN ByAddr /\ ByAddr[addr] = ByUid[uid]

\* C2: after every reducer step an Unhealthy workload is in the UID index and
\* in the address index, find_workload returns it for each of its addresses,
\* and no service endpoint map and no staging entry holds an endpoint for any
\* of its addresses.
C2_UnhealthyStoredWithoutEndpoints ==
    \A uid \in DOMAIN ByUid :
        ByUid[uid].status = "Unhealthy" =>
            \A addr \in workload_addrs(ByUid[uid]) :
                /\ find_workload(state.workloads, addr) = Some(ByUid[uid])
                /\ addr \notin endpoint_addrs(Services)

\* C3: while insert_workload upserts a workload whose UID is already stored
\* with the same IP, a reader's find_workload for that IP does not return None.
C3_UpsertNeverHidesWorkload ==
    (/\ pending.is_some /\ pending.value.prev.is_some /\ observed.is_some
     /\ observed.value.addr \in workload_addrs(pending.value.prev.value)
     /\ observed.value.addr \in workload_addrs(workload_try_from(pending.value.w).value))
    => observed.value.result.is_some

\* The record of the service that the final update, an insert_service, stored.
last_service == service_try_from(last.service)
last_service_record == Services.by_host[namespaced_hostname(last_service)]

\* C4: right after insert_service for a service one of whose VIPs v has staged
\* endpoints, the service is stored with all those endpoints in its endpoint
\* map, under its namespace/hostname and under v, and nothing is staged for v.
C4_StagedEndpointsPromoted ==
    last.op = "insert_service" =>
        \A v \in Range(last_service.vips) \cap DOMAIN last.before.services.staged_vips :
            /\ v \notin DOMAIN Services.staged_vips
            /\ namespaced_hostname(last_service) \in DOMAIN Services.by_host
            /\ v \in DOMAIN Services.by_vip
            /\ \A a \in DOMAIN last.before.services.staged_vips[v] :
                  \A svc \in {last_service_record, Services.by_vip[v]} :
                      /\ a \in DOMAIN svc.endpoints
                      /\ svc.endpoints[a] = last.before.services.staged_vips[v][a]

\* The record that the final update, an insert_service, found stored under the
\* namespace/hostname of its service.
last_service_stored == namespaced_hostname(last_service) \in DOMAIN last.before.services.by_host
previous_record == last.before.services.by_host[namespaced_hostname(last_service)]
staged_endpoints(ss) ==
    UNION {Range(ss.staged_vips[v]) : v \in DOMAIN ss.staged_vips}

\* C5: when a stored service is upserted with a VIP set that still contains
\* VIP v, every endpoint its previous record held for v is in the endpoint map
\* of the new record, the number of stored services is unchanged and nothing
\* is placed in the staging area.
C5_UpsertCarriesEndpointsOver ==
    (last.op = "insert_service" /\ last_service_stored) =>
        /\ \A v \in Range(previous_record.vips) \cap Range(last_service.vips) :
               \A a \in DOMAIN previous_record.endpoints :
                   previous_record.endpoints[a].vip = v =>
                       /\ a \in DOMAIN last_service_record.endpoints
                       /\ last_service_record.endpoints[a] = previous_record.endpoints[a]
        /\ num_services(Services) = num_services(last.before.services)
        /\ staged_endpoints(Services) \subseteq staged_endpoints(last.before.services)

\* C6: when a stored service is upserted with a VIP set that no longer contains
\* a VIP v it had, v resolves to no service afterwards, the endpoint map of the
\* service holds no endpoint whose VIP is v, and no endpoint for v is staged
\* by the upsert.
C6_RemovedVipDiscarded ==
    (last.op = "insert_service" /\ last_service_stored) =>
        \A v \in Range(previous_record.vips) \ Range(last_service.vips) :
            /\ ~get_by_vip(Services, v).is_some
            /\ \A a \in DOMAIN last_service_record.endpoints :
                   last_service_record.endpoints[a].vip # v
            /\ \A e \in staged_endpoints(Services) \ staged_endpoints(last.before.services) :
                   e.vip # v

\* C7: no VIP belongs to the VIP sets of two distinct stored services.
C7_NoSharedVip ==
    \A h1, h2 \in DOMAIN Services.by_host :
        h1 # h2 => Range(Services.by_host[h1].vips) \cap Range(Services.by_host[h2].vips) = {}

\* C8: after every reducer step, for every stored service and every VIP v of
\* its VIP set, each stored Healthy workload whose current record lists v has
\* an endpoint for each of its addresses in the endpoint map of that service.
C8_ListedWorkloadsAreEndpoints ==
    \A svc \in stored_services(Services) :
        \A v \in Range(svc.vips) :
            \A uid \in DOMAIN ByUid :
                (ByUid[uid].status = "Healthy" /\ v \in xds_vips[uid]) =>
                    workload_addrs(ByUid[uid]) \subseteq DOMAIN svc.endpoints

\* C9: remove(key) with the UID of a stored workload removes the workload from
\* the UID index and the address index and its endpoints from all services,
\* and removes no service, also when a service is stored under the same key.
C9_RemoveByUidKeepsServices ==
    (last.op = "remove" /\ last.key \in DOMAIN last.before.workloads.workloads_by_uid) =>
        LET prev == last.before.workloads.workloads_by_uid[last.key]
        IN  /\ last.key \notin DOMAIN ByUid
            /\ \A a \in DOMAIN ByAddr : ByAddr[a].uid # last.key
            /\ workload_addrs(prev) \cap DOMAIN ByAddr = {}
            /\ workload_addrs(prev) \cap endpoint_addrs(Services) = {}
            /\ DOMAIN Services.by_host = DOMAIN last.before.services.by_host
            /\ DOMAIN Services.by_vip = DOMAIN last.before.services.by_vip

\* A run that ends with remove("ns/svc1") while the workload with that UID is
\* stored with an endpoint in the stored service ns/svc1.
C9_Witness ==
    /\ last.op = "remove" /\ last.key = UID2
    /\ UID2 \in DOMAIN last.before.workloads.workloads_by_uid
    /\ [namespace |-> <<"ns">>, hostname |-> <<"svc1">>] \in DOMAIN last.before.services.by_host
    /\ workload_addrs(last.before.workloads.workloads_by_uid[UID2])
           \cap endpoint_addrs(last.before.services) # {}
    /\ [namespace |-> <<"ns">>, hostname |-> <<"svc1">>] \in DOMAIN Services.by_host

\* The number of '/' in a key.
slashes(key) == Cardinality({i \in DOMAIN key : key[i] = "/"})
\* The service a key with a single '/' names.
named_service(key) ==
    LET i == CHOOSE j \in DOMAIN key : key[j] = "/"
    IN  [namespace |-> SubSeq(key, 1, i - 1), hostname |-> SubSeq(key, i + 1, Len(key))]

\* C10: remove(key) leaves the whole store unchanged when the key is no stored
\* workload UID and has no '/', has more than one '/', or names no stored service.
C10_RemoveOfUnknownKeyIsNoop ==
    (/\ last.op = "remove"
     /\ last.key \notin DOMAIN last.before.workloads.workloads_by_uid
     /\ \/ slashes(last.key) # 1
        \/ named_service(last.key) \notin DOMAIN last.before.services.by_host)
    => state = last.before

\* A run that ends with remove("/svc2") while a workload and the service
\* ns/svc2 are stored.
C10_Witness ==
    /\ last.op = "remove" /\ last.key = <<"/", "svc2">>
    /\ DOMAIN last.before.workloads.workloads_by_uid # {}
    /\ [namespace |-> <<"ns">>, hostname |-> <<"svc2">>] \in DOMAIN last.before.services.by_host
    /\ state = last.before

\* C11: every Global-scoped policy of the primary index is listed in the
\* by-namespace index under the empty string, every Namespace-scoped policy
\* under its namespace, and the key of a WorkloadSelector-scoped policy is
\* listed nowhere in the by-namespace index.
C11_PolicyIndicesAgree ==
    \A key \in DOMAIN policies :
        LET rbac == policies[key]
        IN  /\ rbac.scope = "Global" =>
                   <<>> \in DOMAIN policies_by_namespace /\ key \in policies_by_namespace[<<>>]
            /\ rbac.scope = "Namespace" =>
                   /\ rbac.namespace \in DOMAIN policies_by_namespace
                   /\ key \in policies_by_namespace[rbac.namespace]
            /\ rbac.scope = "WorkloadSelector" =>
                   \A ns \in DOMAIN policies_by_namespace : key \notin policies_by_namespace[ns]

\* C12: every workload record reachable from the address index is stored in
\* the UID index under its own UID, as the same record.
C12_AddressIndexWithinUidIndex ==
    \A addr \in DOMAIN ByAddr :
        /\ ByAddr[addr].uid \in DOMAIN ByUid
        /\ ByUid[ByAddr[addr].uid] = ByAddr[addr]

\* Two stored workloads list the same address, which the address index holds.
C12_Witness ==
    \E u1, u2 \in DOMAIN ByUid :
        /\ u1 # u2
        /\ workload_addrs(ByUid[u1]) \cap workload_addrs(ByUid[u2]) \cap DOMAIN ByAddr # {}
        /\ Len(ByUid[u1].workload_ips) = 2

inserted_is_new ==
    /\ last.w.uid \notin DOMAIN last.before.workloads_by_uid
    /\ workload_addrs(last.w) \cap DOMAIN last.before.workloads = {}

both_done == updaters # <<>> /\ \A i \in DOMAIN updaters : updaters[i].pc = "done"

\* C14: when two updates are applied concurrently through clones of the
\* updater, the resulting store is the store that applying the two updates
\* one after the other, in one of the two orders, yields.
C14_ConcurrentUpdatesSerialize ==
    both_done =>
        \/ state = apply_update(apply_update(last.before, updaters[1].update), updaters[2].update)
        \/ state = apply_update(apply_update(last.before, updaters[2].update), updaters[1].update)

\* handle has returned: every update of the batch has been handled.
batch_done == batch.is_some /\ batch.value.pos > Len(batch.value.updates)

\* An update the store cannot take: a workload with an unknown status, with an
\* address that has neither 4 nor 16 bytes, or Healthy with a VIP key that is
\* no address; an address that is neither a workload nor a service.
malformed_workload(w) ==
    \/ w.status \notin {0, 1}
    \/ \E i \in DOMAIN w.addresses : Len(w.addresses[i]) \notin {4, 16}
    \/ w.status = 0 /\ \E i \in DOMAIN w.virtual_ips :
           LET key == w.virtual_ips[i]
               parts == split_once(key)
           IN  ~parse_ip(IF parts.is_some THEN parts.value.right ELSE key).ok
malformed(handler, res) ==
    /\ res.kind = "Update"
    /\ IF handler = "Workload" THEN malformed_workload(res.resource)
       ELSE \/ res.resource.type \notin {"Workload", "Service"}
            \/ res.resource.type = "Workload" /\ malformed_workload(res.resource.w)

\* The store after the updates of a batch, each handled in turn.
RECURSIVE handled_in_order(_, _, _)
handled_in_order(handler, st, updates) ==
    IF updates = <<>> THEN st
    ELSE handled_in_order(handler, handle_one(handler, st, Head(updates)).state, Tail(updates))

\* The rejects handle reports for a batch.
RECURSIVE names_of_malformed(_, _)
names_of_malformed(handler, updates) ==
    IF updates = <<>> THEN <<>>
    ELSE (IF malformed(handler, Head(updates)) THEN <<Head(updates).name>> ELSE <<>>)
         \o names_of_malformed(handler, Tail(updates))

\* C15: when a batch holds a rejected update, the handler still handles every
\* other update of the batch in order and reports the rejected ones; the batch
\* is handled to its end.
C15_BatchContinuesAfterReject ==
    batch_done =>
        /\ state = handled_in_order(batch.value.handler, batch.value.before, batch.value.updates)
        /\ batch.value.rejects = names_of_malformed(batch.value.handler, batch.value.updates)

\* A batch whose first update is rejected and whose later update is stored.
C15_Witness ==
    /\ batch_done
    /\ Len(batch.value.updates) = 3
    /\ malformed(batch.value.handler, batch.value.updates[1])
    /\ batch.value.updates[1].resource = [type |-> "None"]
    /\ ~malformed(batch.value.handler, batch.value.updates[3])
    /\ batch.value.updates[3].kind = "Update"
    /\ UID1 \in DOMAIN ByUid
    /\ Len(batch.value.rejects) >= 1

\* The outcome of the request served, when it reached the gates of a known
\* destination workload.
outcome == served.value.result
reached_gates == served.is_some /\ outcome.kind = "response" /\ outcome.gated

\* C16: for a CONNECT to a known workload the policy evaluator is run if and
\* only if the request is neither from the workload's waypoint nor from its
\* network gateway; when it is run and denies, the answer is 401 and no
\* upstream connection is opened.
C16_RbacIffNeitherGateway ==
    reached_gates =>
        /\ outcome.rbac_run <=> (~outcome.from_waypoint /\ ~outcome.from_gateway)
        /\ (outcome.rbac_run /\ ~served.value.env.allows) =>
               (outcome.status = 401 /\ outcome.connect = None)
\* The request served was a CONNECT to a known destination workload.
known_destination == served.is_some /\ (outcome.kind = "panic" \/ outcome.gated)
from_waypoint_is_true == outcome.kind = "response" /\ outcome.from_waypoint

\* C17: for a workload that designates a waypoint, a request for which
\* from_waypoint is not true is answered 401: never 200, and no upstream
\* connection is opened.
C17_BypassedWaypointIs401 ==
    (known_destination /\ outcome.has_waypoint /\ ~from_waypoint_is_true) =>
        (outcome.kind = "response" /\ outcome.status = 401 /\ outcome.connect = None)
\* The destination workload of the request served.
upstream_of_served ==
    fetch_workload(state, network_addr(served.value.conn.dst_network,
                                       served.value.conn.dst.ip)).value

\* The identities of the stored gateway workload at addr and of the stored
\* workloads backing the endpoints of the gateway service at addr.
gateway_identities(st, addr) ==
    {identity(st.workloads.workloads[a]) : a \in {addr} \cap DOMAIN st.workloads.workloads}
    \cup (IF addr \in DOMAIN st.services.by_vip
          THEN {identity(st.workloads.workloads[a]) :
                   a \in DOMAIN st.services.by_vip[addr].endpoints
                            \cap DOMAIN st.workloads.workloads}
          ELSE {})

peer_is_gateway(gateway_address) ==
    /\ gateway_address.is_some
    /\ gateway_address.value.destination.kind = "Address"
    /\ served.value.conn.src_identity.is_some
    /\ served.value.conn.src_identity.value
           \in gateway_identities(state, gateway_address.value.destination.value)

\* C18: from_waypoint (likewise from_gateway) is true only if the destination
\* workload designates that gateway and the peer presented an identity equal to
\* that of the stored gateway workload or of a stored workload backing an
\* endpoint of the gateway service; a peer with no identity is never treated as
\* coming from the waypoint or gateway.
C18_GatewayPeerHasGatewayIdentity ==
    reached_gates =>
        /\ outcome.from_waypoint => peer_is_gateway(upstream_of_served.waypoint)
        /\ outcome.from_gateway => peer_is_gateway(upstream_of_served.network_gateway)
given_as_hostname(gateway_address) ==
    gateway_address.is_some /\ gateway_address.value.destination.kind = "Hostname"

\* C19: when the destination workload's waypoint or network gateway is given as
\* a hostname, serve_connect does not fail: a normal HTTP response is returned,
\* and a waypoint given as a hostname does not make the request a bypassed
\* waypoint (a request the policy allows is not answered 401).
C19_HostnameGatewayIsNoGateway ==
    (/\ known_destination
     /\ \/ given_as_hostname(upstream_of_served.waypoint)
        \/ given_as_hostname(upstream_of_served.network_gateway)) =>
        /\ outcome.kind = "response"
        /\ (given_as_hostname(upstream_of_served.waypoint) /\ served.value.env.allows) =>
               outcome.status # 401
\* The request served went on to the upstream with a source address chosen.
source_chosen == reached_gates /\ outcome.connect.is_some

\* The outcome of the request served had its Forwarded header been forwarded.
outcome_with(forwarded) ==
    serve_connect(state, served.value.conn,
                  [served.value.req EXCEPT !.forwarded = forwarded], served.value.env)

EmptyState ==
    [workloads |-> [workloads |-> EmptyMap, workloads_by_uid |-> EmptyMap],
     services |-> [staged_vips |-> EmptyMap, by_vip |-> EmptyMap, by_host |-> EmptyMap]]

\* The outcome the request served would have had on the empty store.
outcome_on_empty_store ==
    serve_connect(EmptyState, served.value.conn, served.value.req, served.value.env)

served_connect == served.is_some /\ served.value.req.method = "CONNECT"
\* The authority of the request served spells IP:port; it names the original
\* destination's IP.
authority_is_socket_addr == served.value.req.uri \in DOMAIN SocketAddrText
authority_matches ==
    /\ authority_is_socket_addr
    /\ SocketAddrText[served.value.req.uri].ip = served.value.conn.dst.ip

\* C21: a CONNECT whose authority does not parse as IP:port, or whose authority
\* IP differs from the original destination IP, is answered 400 without reading
\* the store (the outcome is that of the empty store) and without an upstream
\* connection; an authority with the destination's IP and another port is not
\* answered 400.
C21_BadAuthorityIs400 ==
    served_connect =>
        IF authority_matches
        THEN ~(outcome.kind = "response" /\ outcome.status = 400)
        ELSE /\ outcome.kind = "response" /\ outcome.status = 400
             /\ outcome.connect = None
             /\ outcome = outcome_on_empty_store

C21_Witness ==
    /\ served_connect
    /\ ~authority_is_socket_addr
    /\ outcome.status = 400
    /\ fetch_workload(state, network_addr(served.value.conn.dst_network,
                                          served.value.conn.dst.ip)).is_some
\* The authority of the request served spells an IP at which the proxy's own
\* network has no workload.
authority_ip_unknown ==
    /\ authority_is_socket_addr
    /\ network_addr(served.value.conn.dst_network, SocketAddrText[served.value.req.uri].ip)
           \notin DOMAIN state.workloads.workloads
answered_404 == outcome.kind = "response" /\ outcome.status = 404 /\ outcome.connect = None

\* C22 as stated: every request that is no CONNECT, and every CONNECT whose
\* authority IP matches no workload of the own network, is answered 404 with no
\* upstream connection.
C22_UnknownIs404 ==
    served.is_some =>
        /\ ~served_connect => answered_404
        /\ (served_connect /\ authority_ip_unknown) => answered_404

\* C22, amended: every request that is no CONNECT, and every CONNECT whose
\* authority IP is the original destination's and matches no workload of the own
\* network (one of another network does not count), is answered 404 with no
\* upstream connection.
C22_UnknownDestinationIs404 ==
    served.is_some =>
        /\ ~served_connect => answered_404
        /\ (served_connect /\ authority_matches /\ authority_ip_unknown) => answered_404

C22_Witness ==
    /\ served_connect /\ authority_matches /\ authority_ip_unknown
    /\ \E k \in DOMAIN state.workloads.workloads :
           /\ k.address = served.value.conn.dst.ip
           /\ k.network # served.value.conn.dst_network
    /\ answered_404
\* The connections the listener has accepted.
Conns == Range(listener.conns)

\* C23: 200 is answered only after the upstream connect has succeeded and 503
\* when it has failed; bytes are relayed only after the 200 has been sent, and no
\* splice task is started when the connect fails.
C23_OkOnlyAfterUpstreamConnect ==
    \A c \in Conns :
        /\ c.status = Some(200) => c.upstream = "connected"
        /\ (c.upstream = "failed" /\ c.request = "responded") => c.status = Some(503)
        /\ c.splice \in {"relaying", "finished"} => c.status = Some(200)
        /\ c.upstream = "failed" => c.splice = "none"

C23_Witness ==
    /\ \E c \in Conns : c.status = Some(200) /\ c.splice = "relaying"
    /\ \E c \in Conns : c.status = Some(503) /\ c.upstream = "failed"
\* The step accepted a connection: the last connection is new.
accepted_connection == Len(listener'.conns) = Len(listener.conns) + 1
newest_connection == listener'.conns[Len(listener'.conns)]

\* fetch_cert of the newest connection agrees with the store it was read from.
cert_of_stored_workload ==
    LET c == newest_connection
        wip == network_addr(OwnNetwork, c.dst)
    IN  IF wip \in DOMAIN state.workloads.workloads
        THEN c.cert.ok /\ c.cert.identity = identity(state.workloads.workloads[wip])
        ELSE ~c.cert.ok /\ c.cert.error = "CertificateLookup" /\ c.cert.address = wip

\* C25: fetch_cert fails with CertificateLookup(own network, original
\* destination IP) when no workload is stored under that address and otherwise
\* requests an acceptor for the identity of the workload stored there at the
\* moment of the lookup; no inner request is served on a connection whose
\* acceptor fetch failed.
C25_CertOfDestinationWorkload ==
    /\ [][accepted_connection => cert_of_stored_workload]_vars
    /\ [](\A c \in Conns :
             ~c.cert.ok => (c.phase = "tls_failed" /\ c.request = "none" /\ c.status = None))

C25_Witness ==
    /\ \E c \in Conns : ~c.cert.ok /\ c.dst = V4(IP1)
    /\ \E c \in Conns :
           /\ c.cert.ok /\ c.cert.identity = Identity("dest") /\ c.status = Some(200)
           /\ network_addr(OwnNetwork, c.dst) \notin DOMAIN state.workloads.workloads
\* The connection tasks run has spawned and those still running.
spawned_tasks == {c \in Conns : c.cert.ok}
running_tasks == {c \in spawned_tasks : c.phase # "done"}

\* C26: "all inbound connections drained" is emitted at most once, and only
\* after the drain signal has fired and every spawned connection task has
\* completed.
C26_DrainedLoggedAfterTasks ==
    /\ listener.logged <= 1
    /\ listener.logged >= 1 => (listener.drain /\ running_tasks = {})
\* The producer's wait_complete resolves: the signal has fired and the listener
\* and every task have dropped their drain handles.
drain_complete ==
    listener.drain /\ listener.loop = "exited" /\ \A c \in Conns : ~c.handle

\* A task ends in this step.
task_ends(i) ==
    /\ i \in DOMAIN listener.conns
    /\ listener.conns[i].phase # "done" /\ listener'.conns[i].phase = "done"

\* C27: after the drain signal the accept loop accepts no further connection
\* and eventually terminates; a connection served when drain fires gets a
\* graceful shutdown (unless serving ends first) in which in-flight requests run
\* to completion; its task keeps its drain handle until serving has completed,
\* so drain completion is not reported while a connection is being served.
C27_GracefulDrain ==
    /\ [][listener.drain => ~accepted_connection]_vars
    /\ listener.drain ~> (listener.loop = "exited")
    /\ \A i \in 1..MaxConns :
           (i \in DOMAIN listener.conns /\ listener.drain
                /\ listener.conns[i].phase = "serving")
               ~> (i \in DOMAIN listener.conns
                      /\ listener.conns[i].phase \in {"graceful", "done"})
    /\ [][\A i \in 1..MaxConns :
             (task_ends(i) /\ listener.conns[i].phase = "graceful")
                 => ~in_flight(listener.conns[i])]_vars
    /\ [](\A c \in running_tasks : c.handle)
    /\ [](drain_complete => running_tasks = {})

C27_Witness ==
    /\ listener.drain /\ listener.loop = "exited"
    /\ \E c \in Conns :
           c.phase = "graceful" /\ c.splice = "relaying" /\ c.status = Some(200) /\ c.handle
    /\ \E c \in Conns : c.phase = "done" /\ c.splice = "finished"
\* The whole decision of serve_connect taken on one store state lets the
\* connection through: the destination is stored, the waypoint rule passes and
\* the policy allows.
passes_on(snap, conn) ==
    LET r == serve_connect(snap.state, conn, TunnelRequest,
                           [allows |-> assert_rbac(snap.policies, conn), connects |-> TRUE,
                            enable_original_source |-> FALSE])
    IN  r.kind = "response" /\ r.status = 200

decided_200 ==
    decision.is_some /\ decision.value.pc = "done" /\ decision.value.status = Some(200)

\* C24: every CONNECT answered 200 is consistent with one store state: one of
\* the store states that existed while the request was being decided lets the
\* connection through as a whole.
C24_DecisionOnOneSnapshot ==
    decided_200 => \E snap \in decision.value.seen : passes_on(snap, decision.value.conn)
\* DemandProxyState::find_upstream for an address of the own network: the
\* workloads it can return. A VIP resolves to one of the endpoints of its service
\* and to the workload stored at the endpoint's address; any other address is
\* taken for a workload address.
find_upstream_choices(st, addr) ==
    IF get_by_vip(st.services, addr).is_some
    THEN {st.workloads.workloads[a] :
             a \in DOMAIN get_by_vip(st.services, addr).value.endpoints
                      \cap DOMAIN st.workloads.workloads}
    ELSE {st.workloads.workloads[a] : a \in {addr} \cap DOMAIN st.workloads.workloads}

VipAddrs == {network_addr(OwnNetwork, V4(VIP1)), network_addr(OwnNetwork, V4(VIP2))}

\* The workload is stored, Healthy, its current record lists the VIP and the
\* service of the VIP is stored.
healthy_endpoint_of(w, vip) ==
    /\ w.uid \in DOMAIN ByUid /\ ByUid[w.uid] = w
    /\ w.status = "Healthy"
    /\ vip \in xds_vips[w.uid]
    /\ vip \in DOMAIN Services.by_vip

\* C28: find_upstream for a VIP can return a workload if and only if that
\* workload is stored, Healthy, its current record lists the VIP and the VIP's
\* service is stored; it returns nothing when there is no such workload or the
\* service has not arrived.
C28_FindUpstreamIsHealthyEndpoint ==
    \A vip \in VipAddrs :
        /\ \A w \in find_upstream_choices(state, vip) : healthy_endpoint_of(w, vip)
        /\ \A uid \in DOMAIN ByUid :
               healthy_endpoint_of(ByUid[uid], vip) =>
                   ByUid[uid] \in find_upstream_choices(state, vip)
\* C29: after every reducer step, the service record found by namespace and
\* hostname is equal, endpoints included, to the record found through each of
\* its VIPs.
C29_ByHostEqualsByVip ==
    \A name \in DOMAIN Services.by_host :
        \A i \in DOMAIN Services.by_host[name].vips :
            /\ Services.by_host[name].vips[i] \in DOMAIN Services.by_vip
            /\ Services.by_vip[Services.by_host[name].vips[i]] = Services.by_host[name]
----------------------------------------------------------------------------
(* The reducer fed with workloads only: no service is ever stored           *)

NextStaging ==
    \/ \E w \in XdsWorkloads, final \in BOOLEAN : InsertWorkload(w, final)
    \/ \E key \in RemoveKeys, final \in BOOLEAN : Remove(key, final)

SpecStaging == Init /\ [][NextStaging]_vars

\* Some stored Healthy workload's current record lists the VIP.
listed_by_healthy(vip) ==
    \E uid \in DOMAIN ByUid : ByUid[uid].status = "Healthy" /\ vip \in xds_vips[uid]

\* C30: with no service stored, the staging area holds an entry for a VIP
\* exactly when some stored Healthy workload's current record lists that VIP.
C30_StagedIffListedByHealthy ==
    Services.by_host = EmptyMap =>
        \A vip \in VipAddrs : vip \in DOMAIN Services.staged_vips <=> listed_by_healthy(vip)
----------------------------------------------------------------------------
(* The reducer over longer runs of upserts, with fewer distinct updates     *)

MaxUpsertOps == 4

\* Workloads on one address that list the VIP 127.0.1.1 or none, Healthy or not.
UpsertWorkloads ==
    [uid : UIDs, addresses : {<<IP1>>}, network : {OwnNetwork},
     status : {0, 1}, virtual_ips : {<<>>, <<KEY1>>}]

\* Two services with the same VIP.
UpsertServices ==
    [namespace : {<<"ns">>}, hostname : {<<"svc1">>, <<"svc2">>}, addresses : {<<XdsAddr(VIP1)>>}]

\* Handler<XdsWorkload>: XdsUpdate::Update(w), applied as a whole.
UpsertWorkload(w, final) ==
    /\ Running /\ ops < MaxUpsertOps
    /\ LET done == updater_insert_workload(state, w)
           forgotten == IF done.removed THEN forget(state, xds_vips, w.uid) ELSE xds_vips
       IN  /\ state' = done.state
           /\ xds_vips' = IF done.stored
                          THEN MapInsert(forgotten, w.uid,
                                         listed_vips(workload_try_from(w).value, w.virtual_ips))
                          ELSE forgotten
           /\ last' = IF final
                       THEN [op |-> "insert_workload", w |-> w, before |-> state,
                             result |-> IF done.stored THEN "Ok" ELSE "Err"]
                       ELSE last
    /\ ops' = ops + 1
    /\ UNCHANGED <<pending, observed>>
    /\ UNCHANGED <<policy_vars, conc_vars, batch_vars, inbound_vars, listener_vars, decision_vars>>

\* Handler<XdsAddress>: XdsUpdate::Update of a service.
UpsertService(s) ==
    /\ Running /\ ops < MaxUpsertOps
    /\ state' = insert_service(state, s)
    /\ ops' = ops + 1
    /\ UNCHANGED <<pending, xds_vips, observed, last>>
    /\ UNCHANGED <<policy_vars, conc_vars, batch_vars, inbound_vars, listener_vars, decision_vars>>

NextUpsert ==
    \/ \E w \in UpsertWorkloads, final \in BOOLEAN : UpsertWorkload(w, final)
    \/ \E s \in UpsertServices : UpsertService(s)

SpecUpsert == Init /\ [][NextUpsert]_vars

\* The final update, an insert_workload that returned Ok, and the record it stored.
upserted == last.op = "insert_workload" /\ last.result = "Ok"
upserted_workload == workload_try_from(last.w).value
upserted_vips == listed_vips(upserted_workload, last.w.virtual_ips)
\* The record the store held for the UID of the final insert_workload.
upsert_of_stored == last.w.uid \in DOMAIN last.before.workloads.workloads_by_uid
record_before_upsert == last.before.workloads.workloads_by_uid[last.w.uid]

\* The stored services that list the VIP.
services_listing(ss, vip) == {svc \in stored_services(ss) : vip \in Range(svc.vips)}

\* The workload has an endpoint for each of its addresses in every stored
\* service that lists the VIP, and in the staging entry of the VIP when no
\* stored service lists it.
is_endpoint_of(ss, w, vip) ==
    /\ \A svc \in services_listing(ss, vip) : workload_addrs(w) \subseteq DOMAIN svc.endpoints
    /\ services_listing(ss, vip) = {} =>
           /\ vip \in DOMAIN ss.staged_vips
           /\ workload_addrs(w) \subseteq DOMAIN ss.staged_vips[vip]

\* C31: an upsert that returns a stored Unhealthy workload to Healthy derives
\* its endpoints again: afterwards the workload is an endpoint of every stored
\* service that has a VIP its record lists, and is staged for every listed VIP
\* that has no service.
C31_HealthyAgainIsEndpoint ==
    (/\ upserted /\ upsert_of_stored
     /\ record_before_upsert.status = "Unhealthy"
     /\ upserted_workload.status = "Healthy") =>
        \A vip \in upserted_vips : is_endpoint_of(Services, upserted_workload, vip)
----------------------------------------------------------------------------
(* byte_to_ip applied to byte slices                                        *)

MaxSliceLen == 5

\* Byte slices: every slice of up to MaxSliceLen bytes over three byte values,
\* slices of 15, 16 and 17 equal bytes, and the 16 bytes of
\* tests::byte_to_ipaddr_v6_happy.
SliceBytes == {0, 127, 255}
ByteSlices ==
    SeqsUpTo(SliceBytes, MaxSliceLen)
    \cup {[i \in 1..n |-> c] : n \in {15, 16, 17}, c \in SliceBytes}
    \cup {<<32, 1, 13, 184, 133, 163, 0, 0, 0, 0, 138, 46, 3, 112, 115, 52>>}

\* One call of byte_to_ip, recorded with its argument.
ByteToIp(b) ==
    /\ last' = [op |-> "byte_to_ip", b |-> b, result |-> byte_to_ip(b)]
    /\ UNCHANGED <<state, pending, xds_vips, observed, ops>>
    /\ UNCHANGED <<policy_vars, conc_vars, batch_vars, inbound_vars, listener_vars, decision_vars>>

NextBytes == \E b \in ByteSlices : ByteToIp(b)

SpecBytes == Init /\ [][NextBytes]_vars

\* C32: byte_to_ip returns an IPv4 address for a slice of exactly 4 bytes and an
\* IPv6 address for a slice of exactly 16 bytes, with the octets in the given
\* order, and for every other length n, 0 included, fails with
\* ByteAddressParse(n).
C32_ByteToIpByLength ==
    last.op = "byte_to_ip" =>
        /\ Len(last.b) = 4 =>
               last.result = [ok |-> TRUE, value |-> [kind |-> "V4", octets |-> last.b]]
        /\ Len(last.b) = 16 =>
               last.result = [ok |-> TRUE, value |-> [kind |-> "V6", octets |-> last.b]]
        /\ Len(last.b) \notin {4, 16} =>
               last.result = [ok |-> FALSE,
                              error |-> [kind |-> "ByteAddressParse", n |-> Len(last.b)]]
C32_Witness ==
    /\ last.op = "byte_to_ip"
    /\ Len(last.b) = 17
    /\ ~last.result.ok /\ last.result.error.n = 17
\* The addresses that have an endpoint for the VIP: in the service stored under
\* the VIP, or in the staging entry of the VIP when no service is.
endpoints_at(ss, vip) ==
    IF vip \in DOMAIN ss.by_vip THEN DOMAIN ss.by_vip[vip].endpoints
    ELSE IF vip \in DOMAIN ss.staged_vips THEN DOMAIN ss.staged_vips[vip]
    ELSE {}

\* The VIPs the workload is an endpoint of.
endpoint_vips(ss, w) == {vip \in VipAddrs : workload_addrs(w) \cap endpoints_at(ss, vip) # {}}

\* The VIPs the stored record of the final insert_workload gives endpoints for.
new_record_vips == IF upserted_workload.status = "Healthy" THEN upserted_vips ELSE {}

\* C33: when a stored workload is upserted with a different VIP set, the
\* endpoints of the previous record are removed before those of the new record
\* are derived: afterwards the workload is an endpoint of exactly the VIPs its
\* new record lists and of no VIP that only the previous record listed.
C33_UpsertReplacesEndpoints ==
    (/\ upserted /\ upsert_of_stored
     /\ endpoint_vips(last.before.services, record_before_upsert) # new_record_vips) =>
        /\ endpoint_vips(Services, upserted_workload) = new_record_vips
        /\ \A vip \in new_record_vips :
               workload_addrs(upserted_workload) \subseteq endpoints_at(Services, vip)
----------------------------------------------------------------------------
(* The listener's connections beside the reducer                            *)

\* The destination is removed or upserted with a waypoint and a denying policy
\* is stored while connections are accepted, answered and relayed.
NextSplice ==
    \/ \E config \in DecisionConfigs : LocalClientRun(config)
    \/ \E w \in DecisionDestinations : DecisionInsertWorkload(w)
    \/ DecisionInsertAuthorization(DenyAll)
    \/ StoreRemoveWorkload(<<"dest">>)
    \/ Accept(V4(IP1), Some(Identity("client")))
    \/ \E i \in 1..MaxConns :
           \/ \E allows \in BOOLEAN : RequestArrives(i, allows)
           \/ \E stream_ok \in BOOLEAN : HandleInbound(i, stream_ok)
           \/ Respond(i)
           \/ Upgrade(i)
           \/ RelayDone(i)
           \/ ServeDone(i)

SpecSplice == Init /\ [][NextSplice]_vars

\* The request of the connection has been answered 200 and its relay runs.
spliced(c) == c.status = Some(200) /\ c.splice = "relaying"
\* A step of the reducer: the store or the policies change.
store_update == state' # state \/ policies' # policies

----------------------------------------------------------------------------
(* service_endpoints over VIP keys with and without a network               *)

MaxKeys == 2

\* The key of 127.0.1.1 on the network "remote".
REMOTE_KEY1 == RemoteNetwork \o <<"/">> \o KEY1

\* virtual_ips: up to MaxKeys distinct keys, in any iteration order.
KeyLists ==
    {keys \in SeqsUpTo({KEY1, KEY2, REMOTE_KEY1}, MaxKeys) :
        \A i, j \in DOMAIN keys : i # j => keys[i] # keys[j]}

\* Healthy workloads of one or two addresses, on the own network or on "remote".
KeyedWorkloads ==
    [uid : {UID1}, addresses : {<<IP1>>, <<IP1, IP2>>}, network : {OwnNetwork, RemoteNetwork},
     status : {0}, virtual_ips : KeyLists]

\* A service of the VIP 127.0.1.1, on the own network or on "remote".
KeyedServices ==
    [namespace : {<<"ns">>}, hostname : {<<"svc1">>},
     addresses : {<<XdsAddr(VIP1)>>, <<[network |-> RemoteNetwork, address |-> VIP1]>>}]

NextEndpoints ==
    \/ \E w \in KeyedWorkloads, final \in BOOLEAN : UpsertWorkload(w, final)
    \/ \E s \in KeyedServices : UpsertService(s)

SpecEndpoints == Init /\ [][NextEndpoints]_vars

\* The VIP a key names: on the network before the '/', or on the workload's
\* network when the key has no '/'.
vip_of_key(w, key) ==
    IF Len(key) = 1 THEN network_addr(w.network, V4(IpText[key[1]]))
    ELSE network_addr(<<key[1]>>, V4(IpText[key[3]]))

\* One endpoint per (VIP key, workload IP) pair, the keys in iteration order.
endpoint_per_pair(w, keys) ==
    [j \in 1..(Len(keys) * Len(w.workload_ips)) |->
        [vip |-> vip_of_key(w, keys[((j - 1) \div Len(w.workload_ips)) + 1]),
         address |-> network_addr(w.network, w.workload_ips[((j - 1) % Len(w.workload_ips)) + 1]),
         port |-> port_map]]

\* C35: service_endpoints derives exactly one endpoint per (VIP key, workload
\* IP) pair; a key "network/IP" puts the VIP on that network, a key without
\* '/' on the workload's network, and the endpoint's address is on the
\* workload's network; a stored service of such a VIP, on whatever network,
\* resolves to the workload through find_upstream.
C35_EndpointPerKeyAndAddress ==
    upserted =>
        /\ service_endpoints(upserted_workload, last.w.virtual_ips) =
               [ok |-> TRUE, value |-> endpoint_per_pair(upserted_workload, last.w.virtual_ips)]
        /\ \A k \in DOMAIN last.w.virtual_ips :
               vip_of_key(upserted_workload, last.w.virtual_ips[k]) \in DOMAIN Services.by_vip =>
                   upserted_workload \in
                       find_upstream_choices(state,
                           vip_of_key(upserted_workload, last.w.virtual_ips[k]))
C35_Witness ==
    /\ upserted
    /\ upserted_workload.network = OwnNetwork
    /\ Len(upserted_workload.workload_ips) = 2
    /\ last.w.virtual_ips = <<REMOTE_KEY1, KEY2>>
    /\ upserted_workload \in find_upstream_choices(state, network_addr(RemoteNetwork, V4(VIP1)))
\* C36: for a request from the workload's network gateway serve_connect looks
\* no source workload up and reports none; otherwise it looks the source up on
\* the proxy's own network at the chosen source IP. The upstream connect is
\* bound to the chosen source IP if and only if original-source is enabled.
C36_SourceLookupAndBind ==
    source_chosen =>
        /\ outcome.from_gateway =>
               outcome.source = [address |-> None, source |-> None]
        /\ ~outcome.from_gateway =>
               /\ outcome.source.address =
                      Some(network_addr(served.value.conn.dst_network, outcome.source_ip))
               /\ outcome.source.source =
                      MapGet(ByAddr, network_addr(served.value.conn.dst_network,
                                                  outcome.source_ip))
        /\ outcome.connect.value.orig_src =
               IF served.value.env.enable_original_source
               THEN Some(outcome.source_ip) ELSE None
C36_Witness ==
    /\ source_chosen /\ outcome.from_gateway
    /\ MapGet(ByAddr, network_addr(served.value.conn.dst_network, outcome.source_ip)).is_some
    /\ served.value.env.enable_original_source
    /\ outcome.connect.value.orig_src = Some(outcome.source_ip)
---------------------------------------------------------------------------
(* Workload upserts and the stored services                                *)

\* The keys of the services of a store.
service_keys(ss) == DOMAIN ss.by_host

\* C37: a workload upsert never removes a service: every service stored before
\* ProxyStateUpdater::insert_workload(W) is still stored after it, whatever the
\* UID of W is, a UID namespace/hostname that is the key of a stored service
\* included.
C37_UpsertKeepsServices ==
    last.op = "insert_workload" =>
        service_keys(last.before.services) \subseteq service_keys(Services)

\* C38: when ProxyStateUpdater::insert_workload returns an error, for a failed
\* conversion or for a VIP key that is no IP address, the store is as it was
\* before the call: a record stored under the same UID and its endpoints are
\* still there.
C38_FailedUpsertLeavesStore ==
    (last.op = "insert_workload" /\ last.result = "Err") => state = last.before

---------------------------------------------------------------------------
(* The by-namespace index of the policies                                  *)

\* The key of policies_by_namespace a policy is listed under: the match on
\* rbac.scope of insert_authorization and of remove_rbac.
scope_key(rbac) ==
    CASE rbac.scope = "Global" -> Some(<<>>)
      [] rbac.scope = "Namespace" -> Some(rbac.namespace)
      [] OTHER -> None

\* C39: after any sequence of insert_authorization and remove_rbac calls, every
\* key listed in policies_by_namespace names a policy of the primary index
\* whose scope key is the one the key is listed under, and no namespace maps
\* to the empty set.
C39_ByNamespaceWithinPolicies ==
    \A ns \in DOMAIN policies_by_namespace :
        /\ policies_by_namespace[ns] # {}
        /\ \A key \in policies_by_namespace[ns] :
               /\ key \in DOMAIN policies
               /\ IF key \in DOMAIN policies THEN scope_key(policies[key]) = Some(ns) ELSE FALSE

---------------------------------------------------------------------------
(* LocalClient::run on configurations with Unhealthy workloads             *)

MaxLocalWorkloads == 2

\* LocalWorkloads of either status, with and without a VIP.
HealthWorkloads ==
    {[workload |-> [InboundWorkload(uid, ip, "app", None, None) EXCEPT !.status = status],
      vips |-> vips] :
        uid \in {<<"w1">>, <<"w2">>}, ip \in {IP1, IP2},
        status \in {"Healthy", "Unhealthy"}, vips \in {<<>>, <<KEY1>>}}

HealthConfigs ==
    {[workloads |-> wls, services |-> svcs] :
        wls \in SeqsUpTo(HealthWorkloads, MaxLocalWorkloads),
        svcs \in {<<>>, <<WaypointService>>}}

\* LocalClient::run, once, on the empty store; the configuration is recorded.
LocalClientLoads(config) ==
    /\ ops = 0
    /\ state' = local_client_run(state, config)
    /\ last' = [op |-> "local_client_run", config |-> config, before |-> state]
    /\ ops' = 1
    /\ UNCHANGED <<pending, xds_vips, observed, policy_vars, conc_vars, batch_vars,
                   inbound_vars, listener_vars, decision_vars>>

NextLocal == \E config \in HealthConfigs : LocalClientLoads(config)

SpecLocal == Init /\ [][NextLocal]_vars

\* The endpoints the vips of a LocalWorkload name.
local_endpoints(wl) == Range(service_endpoints(wl.workload, wl.vips).value)

\* The store holds the endpoint: in a stored service that lists its VIP, or in
\* the staging entry of its VIP.
holds_endpoint(ss, ep) ==
    \/ \E svc \in services_listing(ss, ep.vip) : ep.address \in DOMAIN svc.endpoints
    \/ IF ep.vip \in DOMAIN ss.staged_vips
       THEN ep.address \in DOMAIN ss.staged_vips[ep.vip]
       ELSE FALSE

\* The endpoints of the loaded configuration that only Unhealthy workloads name.
unhealthy_only_endpoints ==
    LET wls == Range(last.config.workloads)
    IN  {ep \in UNION {local_endpoints(wl) : wl \in {x \in wls : x.workload.status = "Unhealthy"}} :
            \A wl \in wls : wl.workload.status = "Healthy" => ep \notin local_endpoints(wl)}

\* C40: after LocalClient::run has loaded a local configuration, no Unhealthy
\* workload contributes an endpoint to a service or to a staging entry, as with
\* the discovery reducer.
C40_LocalUnhealthyNoEndpoints ==
    last.op = "local_client_run" =>
        \A ep \in unhealthy_only_endpoints : ~holds_endpoint(Services, ep)

====
